---- MODULE Spec2Model ----
(***************************************************************************)
(* A model of the integer-interval core of the `math` crate: contiguous    *)
(* integer sets (closed ranges), ordered integer sets (coalesced lists of  *)
(* ranges), the interval aggregation map, the N-way common-refinement zip  *)
(* and the fixed-bin aggregating iterator.                                 *)
(*                                                                         *)
(* A range is the pair <<start, end>>; Option<T> is the sequence <<>>      *)
(* (None) or <<x>> (Some(x)); a Vec is a sequence.  Rust indices are       *)
(* 0-based: index i of a Vec is element i + 1 of the sequence.             *)
(***************************************************************************)
EXTENDS Integers, Sequences, FiniteSets, TLC

VARIABLES
    input,       \* build: the list of ranges handed to a constructor
    perm,        \* build: a permutation of `input`
    built,       \* build: Option of the fragment list built from `input`
    builtPerm,   \* build: Option of the fragment list built from `perm`
    ctor,        \* build: which constructor produced built/builtPerm
    intervals,   \* collect: OrderedIntegerSet.intervals of the receiver
    items,       \* collect: the elements collected so far, in call order
    map,         \* IntegerIntervalMap.map: a function from keys (ranges) to values
    superposed,  \* aggregate: per integer, the sum of the values aggregated over it
    covered,     \* aggregate: the integers that lie in some aggregated range
    ncalls,      \* aggregate: the number of aggregate() calls so far
    mpanicked,   \* aggregate: a call has panicked
    zsrc,        \* zip: the zipped sources as given, each a list of <<range, value>>
    iters,       \* zip: CommonRefinementZipped.iters, the items each source has left
    zintervals,  \* zip: CommonRefinementZipped.intervals
    zvalues,     \* zip: CommonRefinementZipped.values
    emitted,     \* zip: the items next() has returned, in order
    started,     \* zip: next() has been called
    aborted,     \* zip: an assertion has failed
    bsrc,        \* bin: the source as given, a list of <<range, value>>
    biter,       \* bin: BinnedIntervalIter.iter, the items the source has left
    bin_size,    \* bin: BinnedIntervalIter.bin_size
    aggregate_op,          \* bin: BinnedIntervalIter.aggregate_op
    current_interval_val,  \* bin: BinnedIntervalIter.current_interval_val
    current_bin, \* bin: BinnedIntervalIter.current_bin
    bout,        \* bin: the items next() has returned, in order
    bstate,      \* bin: "unbuilt", "ready" (new() returned the iterator),
                 \*      "error" (new() returned an error value) or "panicked"
    args,        \* call: the receiver and arguments of a call of a function
    called,      \* call: the function called, "none" before the call
    ret          \* call: what the call returned

buildVars == <<input, perm, built, builtPerm, ctor>>
collectVars == <<intervals, items>>
mapVars == <<map, superposed, covered, ncalls, mpanicked>>
binVars == <<bsrc, biter, bin_size, aggregate_op, current_interval_val,
             current_bin, bout, bstate>>
callVars == <<args, called, ret>>
zipVars == <<zsrc, iters, zintervals, zvalues, emitted, started, aborted>>
vars == <<input, perm, built, builtPerm, ctor, intervals, items,
          map, superposed, covered, ncalls, mpanicked,
          zsrc, iters, zintervals, zvalues, emitted, started, aborted,
          bsrc, biter, bin_size, aggregate_op, current_interval_val,
          current_bin, bout, bstate, args, called, ret>>

(***************************************************************************)
(* Bounds of the model.                                                    *)
(***************************************************************************)
MaxCoord == 3        \* ranges handed to constructors have bounds in 0..MaxCoord
MaxRanges == 3       \* longest list of ranges handed to a constructor
MaxElem == 4         \* collect() is called with elements in 0..MaxElem
MaxItems == 4        \* longest sequence of collect() calls
MaxKeyCoord == 3     \* aggregate() is called with keys within 0..MaxKeyCoord
MaxCalls == 3        \* longest sequence of aggregate() calls
MaxZipCoord == 1     \* zipped sources hold ranges within 0..MaxZipCoord
MaxSources == 3      \* most sources zipped together
MaxBinCoord == 2     \* binned sources hold ranges within -MaxBinCoord..MaxBinCoord
MaxBinSourceLen == 2 \* longest binned source
MaxBinSize == 3      \* largest bin size
MaxPartCoord == 3    \* partitions hold ranges within 0..MaxPartCoord
MaxSetCoord == 5     \* canonical sets are subsets of 0..MaxSetCoord
MaxRangeCoord == 4   \* single ranges have bounds within 0..MaxRangeCoord
MaxSearchLen == 5    \* longest sequence searched
MaxIterCoord == 3    \* iterated ranges have bounds within -MaxIterCoord..MaxIterCoord
MaxParts == 5        \* most partitions of an IntegerPartitions

None == <<>>
Some(x) == <<x>>
IsSome(o) == Len(o) = 1
Unwrap(o) == o[1]

Min(a, b) == IF a <= b THEN a ELSE b
Max(a, b) == IF a >= b THEN a ELSE b

(***************************************************************************)
(* ContiguousIntegerSet                                                    *)
(***************************************************************************)
New(start, end) == <<start, end>>
GetStart(r) == r[1]
GetEnd(r) == r[2]

\* ContiguousIntegerSet::is_empty
IsEmpty(r) == r[1] > r[2]

\* ContiguousIntegerSet::contains
Contains(r, x) == x >= r[1] /\ x <= r[2]

\* Finite::size for ContiguousIntegerSet
Size(r) == IF r[1] > r[2] THEN 0 ELSE r[2] - r[1] + 1

\* Intersect<&ContiguousIntegerSet> for ContiguousIntegerSet
Intersect(a, b) ==
    IF IsEmpty(a) \/ IsEmpty(b) \/ b[2] < a[1] \/ b[1] > a[2]
    THEN None
    ELSE Some(New(Max(a[1], b[1]), Min(a[2], b[2])))

HasNonEmptyIntersectionWith(a, b) == IsSome(Intersect(a, b))

\* A merge that succeeds only when the two ranges share an integer.
CoalesceWithOverlapOnly(a, b) ==
    IF IsEmpty(a) /\ IsEmpty(b) THEN None
    ELSE IF IsEmpty(a) THEN Some(b)
    ELSE IF IsEmpty(b) THEN Some(a)
    ELSE IF a[1] > b[2] \/ a[2] < b[1] THEN None
    ELSE Some(New(Min(a[1], b[1]), Max(a[2], b[2])))

\* Coalesce<Self> for ContiguousIntegerSet
CoalesceWith(a, b) ==
    IF IsEmpty(a) /\ IsEmpty(b) THEN None
    ELSE IF IsEmpty(a) THEN Some(b)
    ELSE IF IsEmpty(b) THEN Some(a)
    ELSE IF a[1] > b[2] + 1 \/ a[2] + 1 < b[1] THEN None
    ELSE Some(New(Min(a[1], b[1]), Max(a[2], b[2])))

\* Coalesce<E> for ContiguousIntegerSet: coalescing a range with one element
CoalesceWithItem(a, item) ==
    IF IsEmpty(a) THEN Some(New(item, item))
    ELSE IF a[1] > item + 1 \/ a[2] + 1 < item THEN None
    ELSE Some(New(Min(a[1], item), Max(a[2], item)))

\* A subset test without the case of the empty receiver.
RangeIsSubsetOfBounds(self, other) == other[1] <= self[1] /\ self[2] <= other[2]

\* ContiguousIntegerSet::is_subset_of (set/contiguous_integer_set.rs): the
\* empty set is a subset of any set
RangeIsSubsetOf(self, other) ==
    IsEmpty(self) \/ (other[1] <= self[1] /\ self[2] <= other[2])

\* ContiguousIntegerSet::is_strict_subset_of
RangeIsStrictSubsetOf(self, other) ==
    RangeIsSubsetOf(self, other) /\ self # other /\ ~IsEmpty(other)

\* The `Some(intersection)` arm of get_common_refinement: what is left of
\* the intersection, the intersection, what is right of it
RefineAround(self, other, intersection) ==
    (IF self[1] < intersection[1] THEN <<New(self[1], intersection[1] - 1)>> ELSE <<>>)
    \o (IF other[1] < intersection[1] THEN <<New(other[1], intersection[1] - 1)>> ELSE <<>>)
    \o <<intersection>>
    \o (IF self[2] > intersection[2] THEN <<New(intersection[2] + 1, self[2])>> ELSE <<>>)
    \o (IF other[2] > intersection[2] THEN <<New(intersection[2] + 1, other[2])>> ELSE <<>>)

\* A refinement that lists the receiver first when the ranges do not meet.
RangeRefinementSelfFirst(self, other) ==
    IF IsEmpty(self) THEN (IF IsEmpty(other) THEN <<>> ELSE <<other>>)
    ELSE IF IsEmpty(other) THEN <<self>>
    ELSE IF Intersect(self, other) = None THEN <<self, other>>
    ELSE RefineAround(self, other, Unwrap(Intersect(self, other)))

\* Refineable::get_common_refinement for ContiguousIntegerSet
RangeRefinement(self, other) ==
    IF IsEmpty(self) THEN (IF IsEmpty(other) THEN <<>> ELSE <<other>>)
    ELSE IF IsEmpty(other) THEN <<self>>
    ELSE IF Intersect(self, other) = None
    THEN IF self[1] <= other[1] THEN <<self, other>> ELSE <<other, self>>
    ELSE RefineAround(self, other, Unwrap(Intersect(self, other)))

(***************************************************************************)
(* Vec helpers                                                             *)
(***************************************************************************)
Last(s) == s[Len(s)]
Front(s) == SubSeq(s, 1, Len(s) - 1)

\* Vec::remove(i), i 0-based
RemoveAt(s, i) == SubSeq(s, 1, i) \o SubSeq(s, i + 2, Len(s))

\* Vec::insert(i, x), i 0-based
InsertAt(s, i, x) == SubSeq(s, 1, i) \o <<x>> \o SubSeq(s, i + 1, Len(s))

\* slice::sort_by_key(|i| i.get_start()): a stable sort, so its result is the
\* one a stable insertion sort produces.
RECURSIVE InsertByStart(_, _)
InsertByStart(sorted, r) ==
    IF sorted = <<>> THEN <<r>>
    ELSE IF GetStart(Last(sorted)) <= GetStart(r) THEN Append(sorted, r)
    ELSE Append(InsertByStart(Front(sorted), r), Last(sorted))

RECURSIVE SortByKeyStart(_)
SortByKeyStart(s) ==
    IF s = <<>> THEN <<>>
    ELSE InsertByStart(SortByKeyStart(Front(s)), Last(s))

\* The fold of coalesce_intervals_inplace over the drained, sorted Vec.
RECURSIVE CoalesceFold(_, _)
CoalesceFold(coalesced, rest) ==
    IF rest = <<>> THEN coalesced
    ELSE IF coalesced = <<>> THEN CoalesceFold(<<Head(rest)>>, Tail(rest))
    ELSE LET merged == CoalesceWith(Last(coalesced), Head(rest))
         IN  IF IsSome(merged)
             THEN CoalesceFold(Append(Front(coalesced), Unwrap(merged)), Tail(rest))
             ELSE CoalesceFold(Append(coalesced, Head(rest)), Tail(rest))

\* CoalesceIntervals::coalesce_intervals_inplace for Vec<I>
VecCoalesce(v) == CoalesceFold(<<>>, SortByKeyStart(v))

RECURSIVE SelectNonEmpty(_)
SelectNonEmpty(v) ==
    IF v = <<>> THEN <<>>
    ELSE IF IsEmpty(Head(v)) THEN SelectNonEmpty(Tail(v))
    ELSE <<Head(v)>> \o SelectNonEmpty(Tail(v))

\* OrderedIntegerSet::remove_empty_intervals / into_non_empty_intervals
RemoveEmptyIntervals(v) == SelectNonEmpty(v)

\* CoalesceIntervals::coalesce_intervals_inplace for OrderedIntegerSet
SetCoalesce(v) == VecCoalesce(RemoveEmptyIntervals(v))

\* OrderedIntegerSet::from_slice
FromSlice(slice) == SetCoalesce(slice)

\* From<Vec<ContiguousIntegerSet>> for OrderedIntegerSet
FromVec(v) == SetCoalesce(v)

\* OrderedIntegerSet::from_contiguous_integer_sets
FromContiguousIntegerSets(sets) == VecCoalesce(sets)

\* OrderedIntegerSet::from_ordered_coalesced_contiguous_integer_sets
FromOrderedCoalesced(sets) == sets

(***************************************************************************)
(* What a fragment list means, and the canonical form                      *)
(***************************************************************************)
Members(v) == UNION {r[1]..r[2] : r \in {v[i] : i \in 1..Len(v)}}

Canonical(v) ==
    /\ \A i \in 1..Len(v) : ~IsEmpty(v[i])
    /\ \A i \in 1..Len(v) - 1 : v[i][2] + 1 < v[i + 1][1]

(***************************************************************************)
(* search::binary_search                                                   *)
(***************************************************************************)
\* Result<usize, Option<usize>>
Ok(i) == <<"Ok", i>>
Err(o) == <<"Err", o>>
IsOk(res) == res[1] = "Ok"

\* A loop whose final match reports `mid + 1` as the insertion point also
\* when the element at `mid` compares Greater.
RECURSIVE BinarySearchLoopInsertAfterMid(_, _, _, _)
BinarySearchLoopInsertAfterMid(c, start, end, mid) ==
    IF end > start
    THEN IF c[mid + 1] = "Less"
         THEN BinarySearchLoopInsertAfterMid(c, mid + 1, end, (mid + 1 + end) \div 2)
         ELSE IF c[mid + 1] = "Greater"
         THEN BinarySearchLoopInsertAfterMid(c, start, mid, (start + mid) \div 2)
         ELSE Ok(mid)
    ELSE IF c[mid + 1] = "Equal" THEN Ok(mid)
         ELSE Err(Some(mid + 1))

\* The `while end > start` loop of binary_search_with_cmp and the match after
\* it.  c[i + 1] is cmp(&self[i], target); start, end, mid are 0-based and end
\* is inclusive.
RECURSIVE BinarySearchLoop(_, _, _, _)
BinarySearchLoop(c, start, end, mid) ==
    IF end > start
    THEN IF c[mid + 1] = "Less"
         THEN BinarySearchLoop(c, mid + 1, end, (mid + 1 + end) \div 2)
         ELSE IF c[mid + 1] = "Greater"
         THEN BinarySearchLoop(c, start, mid, (start + mid) \div 2)
         ELSE Ok(mid)
    ELSE IF c[mid + 1] = "Equal" THEN Ok(mid)
         ELSE IF c[mid + 1] = "Less" THEN Err(Some(mid + 1))
         ELSE Err(Some(mid))

\* BinarySearch::binary_search_with_cmp for Vec<T>
BinarySearchWithCmp(c, start, end_exclusive) ==
    IF start >= end_exclusive THEN Err(None)
    ELSE IF c[start + 1] = "Greater" THEN Err(Some(start))
    ELSE IF c[end_exclusive] = "Less" THEN Err(Some(end_exclusive))
    ELSE BinarySearchLoop(c, start, end_exclusive - 1,
                          (start + end_exclusive - 1) \div 2)

(***************************************************************************)
(* Collecting<E> for OrderedIntegerSet                                     *)
(***************************************************************************)
\* The comparator closure collect() hands to the binary search.
CollectCmp(interval, item) ==
    IF interval[1] > item + 1 THEN "Greater"
    ELSE IF interval[2] + 1 < item THEN "Less"
    ELSE "Equal"

\* The Ok(i) arm: extend fragment i by the item, then merge with the left and
\* with the right neighbour where they coalesce.
CollectOk(v, i, item) ==
    LET v1 == [v EXCEPT ![i + 1] = Unwrap(CoalesceWithItem(v[i + 1], item))]
        left == IF i > 0 THEN CoalesceWith(v1[i], v1[i + 1]) ELSE None
        v2 == IF i > 0 /\ IsSome(left)
              THEN RemoveAt([v1 EXCEPT ![i] = Unwrap(left)], i)
              ELSE v1
        right == IF i + 2 <= Len(v2) THEN CoalesceWith(v2[i + 2], v2[i + 1]) ELSE None
    IN  IF i + 2 <= Len(v2) /\ IsSome(right)
        THEN RemoveAt([v2 EXCEPT ![i + 1] = Unwrap(right)], i + 1)
        ELSE v2

\* The binary-search path of collect()
CollectSearch(v, item) ==
    LET res == BinarySearchWithCmp([k \in 1..Len(v) |-> CollectCmp(v[k], item)],
                                   0, Len(v))
    IN  IF IsOk(res) THEN CollectOk(v, res[2], item)
        ELSE InsertAt(v, Unwrap(res[2]), New(item, item))

\* collect(): the fast path on the last fragment, else the binary search
Collect(v, item) ==
    IF v = <<>> THEN <<New(item, item)>>
    ELSE IF item > Last(v)[2] + 1 THEN Append(v, New(item, item))
    ELSE IF IsSome(CoalesceWithItem(Last(v), item))
    THEN [v EXCEPT ![Len(v)] = Unwrap(CoalesceWithItem(Last(v), item))]
    ELSE CollectSearch(v, item)

(***************************************************************************)
(* OrderedIntegerSet: emptiness, intersection, subtraction                 *)
(***************************************************************************)
\* Set::is_empty for OrderedIntegerSet
SetIsEmpty(v) == RemoveEmptyIntervals(v) = <<>>

\* First `while` of OrderedIntegerSet::intersect: skip the rhs fragments that
\* end before the interval starts.  j is 0-based.
RECURSIVE IntersectSkip(_, _, _)
IntersectSkip(rhs, j, interval) ==
    IF j < Len(rhs) /\ rhs[j + 1][2] < interval[1]
    THEN IntersectSkip(rhs, j + 1, interval)
    ELSE j

\* Second `while`: push the intersections with the rhs fragments that start
\* within the interval.  Returns <<j, intersection>>.
RECURSIVE IntersectTake(_, _, _, _)
IntersectTake(rhs, j, interval, acc) ==
    IF j < Len(rhs) /\ rhs[j + 1][1] <= interval[2]
    THEN LET i == Intersect(interval, rhs[j + 1])
             acc1 == IF IsSome(i) THEN Append(acc, Unwrap(i)) ELSE acc
         IN  IF rhs[j + 1][2] <= interval[2]
             THEN IntersectTake(rhs, j + 1, interval, acc1)
             ELSE <<j, acc1>>
    ELSE <<j, acc>>

\* The `for interval in self.intervals` loop of OrderedIntegerSet::intersect
RECURSIVE IntersectLoop(_, _, _, _)
IntersectLoop(lhs, rhs, j, acc) ==
    IF lhs = <<>> THEN acc
    ELSE LET t == IntersectTake(rhs, IntersectSkip(rhs, j, Head(lhs)), Head(lhs), acc)
         IN  IntersectLoop(Tail(lhs), rhs, t[1], t[2])

\* An intersection that stops after the first fragment of the receiver.
SetIntersectFirstOnly(a, b) ==
    IF a = <<>> THEN <<>>
    ELSE FromContiguousIntegerSets(IntersectLoop(<<Head(a)>>, b, 0, <<>>))

\* Intersect<&OrderedIntegerSet> for OrderedIntegerSet
SetIntersect(a, b) == FromContiguousIntegerSets(IntersectLoop(a, b, 0, <<>>))

\* Intersect<&OrderedIntegerSet> for ContiguousIntegerSet
RangeIntersectSet(r, b) ==
    IF IsEmpty(r) THEN <<>> ELSE SetIntersect(FromOrderedCoalesced(<<r>>), b)

\* Intersect<&ContiguousIntegerSet> for OrderedIntegerSet
SetIntersectRange(self, other) == RangeIntersectSet(other, self)

\* A difference that keeps only the part left of the subtrahend.
RangeSubLeftOnly(self, rhs) ==
    IF IsEmpty(self) THEN <<>>
    ELSE IF IsEmpty(rhs) THEN <<self>>
    ELSE IF rhs[1] > self[1] THEN <<New(self[1], Min(self[2], rhs[1] - 1))>>
    ELSE <<>>

\* Sub<&ContiguousIntegerSet> for ContiguousIntegerSet: [a, b] - [c, d]
RangeSub(self, rhs) ==
    LET a == self[1]
        b == self[2]
        c == rhs[1]
        d == rhs[2]
        left == IF c > a THEN <<New(a, Min(b, c - 1))>> ELSE <<>>
        i == New(Max(d + 1, a), b)
    IN  IF IsEmpty(self) THEN <<>>
        ELSE IF IsEmpty(rhs) THEN <<self>>
        ELSE IF ~IsEmpty(i) THEN Append(left, i) ELSE left

\* A loop that stops at the first fragment beyond the range without copying
\* the fragments that remain.
RECURSIVE SetSubRangeLoopDropsRest(_, _, _, _)
SetSubRangeLoopDropsRest(v, i, rhs, diff) ==
    IF i >= Len(v) THEN diff
    ELSE IF v[i + 1][1] > rhs[2] THEN diff
    ELSE LET diff_set == RangeSub(v[i + 1], rhs)
         IN  SetSubRangeLoopDropsRest(v, i + 1, rhs,
                             IF ~SetIsEmpty(diff_set) THEN diff \o diff_set ELSE diff)

\* The `for i in copy_first_n..num_intervals` loop of OrderedIntegerSet - range
RECURSIVE SetSubRangeLoop(_, _, _, _)
SetSubRangeLoop(v, i, rhs, diff) ==
    IF i >= Len(v) THEN diff
    ELSE IF v[i + 1][1] > rhs[2] THEN diff \o SubSeq(v, i + 1, Len(v))
    ELSE LET diff_set == RangeSub(v[i + 1], rhs)
         IN  SetSubRangeLoop(v, i + 1, rhs,
                             IF ~SetIsEmpty(diff_set) THEN diff \o diff_set ELSE diff)

\* Sub<&ContiguousIntegerSet> for OrderedIntegerSet
SetSubRange(v, rhs) ==
    IF SetIsEmpty(v) \/ IsEmpty(rhs) \/ rhs[2] < v[1][1] \/ rhs[1] > Last(v)[2]
    THEN v
    ELSE LET res == BinarySearchWithCmp(
                        [k \in 1..Len(v) |->
                            IF v[k][2] < rhs[1] THEN "Less" ELSE "Greater"],
                        0, Len(v))
             copy_first_n == IF IsSome(res[2]) THEN Unwrap(res[2]) ELSE 0
         IN  SetSubRangeLoop(v, copy_first_n, rhs, SubSeq(v, 1, copy_first_n))

\* The `for interval in rhs.intervals_iter()` loop of range - OrderedIntegerSet
RECURSIVE RangeSubSetLoop(_, _)
RangeSubSetLoop(diff, rhs) ==
    IF rhs = <<>> THEN diff
    ELSE RangeSubSetLoop(SetSubRange(diff, Head(rhs)), Tail(rhs))

\* Sub<&OrderedIntegerSet> for ContiguousIntegerSet
RangeSubSet(self, rhs) == SetCoalesce(RangeSubSetLoop(FromVec(<<self>>), rhs))

\* First `while` of OrderedIntegerSet - OrderedIntegerSet: skip the rhs
\* intervals that end before the interval starts.  rhs_i is 0-based.
RECURSIVE SetSubSkip(_, _, _)
SetSubSkip(rhs, rhs_i, interval) ==
    IF rhs_i < Len(rhs) /\ rhs[rhs_i + 1][2] < interval[1]
    THEN SetSubSkip(rhs, rhs_i + 1, interval)
    ELSE rhs_i

\* A step that leaves the fragments as they are.
KeepFragments(fragments, r) == fragments

\* The match on `fragments.last()`: the last fragment is replaced by what
\* is left of it without the rhs interval.
SubtractFromLast(fragments, r) ==
    IF fragments = <<>> THEN fragments
    ELSE Front(fragments) \o RangeSub(Last(fragments), r)

\* Second `while`: subtract the rhs intervals that start within the
\* interval.  Returns <<rhs_i, fragments>>.
RECURSIVE SetSubTake(_, _, _, _)
SetSubTake(rhs, rhs_i, interval, fragments) ==
    IF rhs_i < Len(rhs) /\ rhs[rhs_i + 1][1] <= interval[2]
    THEN LET f == SubtractFromLast(fragments, rhs[rhs_i + 1])
         IN  IF rhs[rhs_i + 1][2] <= interval[2]
             THEN SetSubTake(rhs, rhs_i + 1, interval, f)
             ELSE <<rhs_i, f>>
    ELSE <<rhs_i, fragments>>

\* The `for interval in self.intervals.iter()` loop
RECURSIVE SetSubLoop(_, _, _, _)
SetSubLoop(lhs, rhs, rhs_i, diff) ==
    IF lhs = <<>> THEN diff
    ELSE LET t == SetSubTake(rhs, SetSubSkip(rhs, rhs_i, Head(lhs)), Head(lhs),
                             <<Head(lhs)>>)
         IN  SetSubLoop(Tail(lhs), rhs, t[1], diff \o t[2])

\* Sub<&OrderedIntegerSet> for OrderedIntegerSet
SetSub(self, rhs) == FromOrderedCoalesced(SetSubLoop(self, rhs, 0, <<>>))

\* A slice that takes the indices for values.
RangeSliceByValue(inp, start, end) ==
    IF start >= end \/ start >= Size(inp) THEN None
    ELSE Some(New(start, end - 1))

\* Slicing<&ContiguousIntegerSet> for Range<usize>: input.slice(start..end)
RangeSlice(inp, start, end) ==
    IF start >= end \/ start >= Size(inp) THEN None
    ELSE Some(New(inp[1] + start, inp[1] + end - 1))

\* The `for interval in input.intervals.iter()` loop of the slice of an
\* OrderedIntegerSet
RECURSIVE SliceLoop(_, _, _, _)
SliceLoop(ivs, skip, remaining, contiguous_sets) ==
    IF ivs = <<>> \/ remaining = 0 THEN contiguous_sets
    ELSE LET interval == Head(ivs)
             size == Size(interval)
         IN  IF skip > 0
             THEN IF skip >= size
                  THEN SliceLoop(Tail(ivs), skip - size, remaining, contiguous_sets)
                  ELSE LET stop == Min(skip + remaining, size)
                           sl == RangeSlice(interval, skip, stop)
                       IN  SliceLoop(Tail(ivs), 0, remaining - (stop - skip),
                                     IF IsSome(sl) THEN Append(contiguous_sets, Unwrap(sl))
                                     ELSE contiguous_sets)
             ELSE LET increase == Min(remaining, size)
                      sl == RangeSlice(interval, 0, increase)
                  IN  SliceLoop(Tail(ivs), skip, remaining - increase,
                                IF IsSome(sl) THEN Append(contiguous_sets, Unwrap(sl))
                                ELSE contiguous_sets)

\* Slicing<&OrderedIntegerSet> for Range<usize>: input.slice(start..end)
SetSlice(inp, start, end) ==
    IF start >= end THEN <<>>
    ELSE FromContiguousIntegerSets(SliceLoop(inp, start, end - start, <<>>))

(***************************************************************************)
(* partition::ordered_interval_partitions                                  *)
(***************************************************************************)
\* ContiguousIntegerSet::is_subset_of
IsSubsetOf(self, other) == self[1] >= other[1] /\ self[2] <= other[2]

\* A tail that forgets the remnants.
RefineTailWithoutRemnants(self, other, i, j, refinement, lhs_remnant, rhs_remnant) ==
    refinement \o SubSeq(self, i + 1, Len(self)) \o SubSeq(other, j + 1, Len(other))

\* What follows the `while i < end_i && j < end_j` loop of
\* get_common_refinement: the remnants, then the partitions left on each side.
RefineTail(self, other, i, j, refinement, lhs_remnant, rhs_remnant) ==
    LET r1 == IF IsSome(lhs_remnant) THEN Append(refinement, Unwrap(lhs_remnant))
              ELSE refinement
        i1 == IF IsSome(lhs_remnant) THEN i + 1 ELSE i
        r2 == IF IsSome(rhs_remnant) THEN Append(r1, Unwrap(rhs_remnant)) ELSE r1
        j1 == IF IsSome(rhs_remnant) THEN j + 1 ELSE j
    IN  r2 \o SubSeq(self, i1 + 1, Len(self)) \o SubSeq(other, j1 + 1, Len(other))

\* A choice that always takes the left-hand side first.
LhsAlwaysFirst(lhs, rhs) == TRUE

\* Which of two disjoint ranges the loop pushes first:
\* `lhs.get_start() <= rhs.get_start()`
LhsFirst(lhs, rhs) == lhs[1] <= rhs[1]

\* The `while i < end_i && j < end_j` loop of get_common_refinement; i and j
\* are 0-based.
RECURSIVE RefineLoop(_, _, _, _, _, _, _)
RefineLoop(self, other, i, j, refinement, lhs_remnant, rhs_remnant) ==
    IF i < Len(self) /\ j < Len(other)
    THEN LET lhs == IF IsSome(lhs_remnant) THEN Unwrap(lhs_remnant) ELSE self[i + 1]
             rhs == IF IsSome(rhs_remnant) THEN Unwrap(rhs_remnant) ELSE other[j + 1]
             x == Intersect(lhs, rhs)
         IN  IF x = None
             THEN IF LhsFirst(lhs, rhs)
                  THEN RefineLoop(self, other, i + 1, j, Append(refinement, lhs),
                                  None, rhs_remnant)
                  ELSE RefineLoop(self, other, i, j + 1, Append(refinement, rhs),
                                  lhs_remnant, None)
             ELSE LET intersection == Unwrap(x)
                      r1 == IF lhs[1] < intersection[1]
                            THEN Append(refinement, New(lhs[1], intersection[1] - 1))
                            ELSE refinement
                      r2 == IF rhs[1] < intersection[1]
                            THEN Append(r1, New(rhs[1], intersection[1] - 1))
                            ELSE r1
                      lhs_more == lhs[2] > intersection[2]
                      rhs_more == rhs[2] > intersection[2]
                  IN  RefineLoop(self, other,
                                 IF lhs_more THEN i ELSE i + 1,
                                 IF rhs_more THEN j ELSE j + 1,
                                 Append(r2, intersection),
                                 IF lhs_more THEN Some(New(intersection[2] + 1, lhs[2]))
                                 ELSE None,
                                 IF rhs_more THEN Some(New(intersection[2] + 1, rhs[2]))
                                 ELSE None)
    ELSE RefineTail(self, other, i, j, refinement, lhs_remnant, rhs_remnant)

\* Refineable::get_common_refinement for OrderedIntervalPartitions
GetCommonRefinement(self, other) == RefineLoop(self, other, 0, 0, <<>>, None, None)

\* A comparator that sends the search the wrong way: Less for a partition
\* that starts after the subinterval.
ContainingCmpReversed(interval, subinterval) ==
    IF IsSubsetOf(subinterval, interval) THEN "Equal"
    ELSE IF interval[1] > subinterval[1] THEN "Less"
    ELSE "Greater"

\* The comparator closure of get_partition_containing
ContainingCmp(interval, subinterval) ==
    IF IsSubsetOf(subinterval, interval) THEN "Equal"
    ELSE IF interval[1] > subinterval[1] THEN "Greater"
    ELSE "Less"

\* OrderedIntervalPartitions::get_partition_containing
GetPartitionContaining(partitions, subinterval) ==
    LET res == BinarySearchWithCmp(
                   [k \in 1..Len(partitions) |-> ContainingCmp(partitions[k], subinterval)],
                   0, Len(partitions))
    IN  IF IsOk(res) THEN Some(<<res[2], partitions[res[2] + 1]>>) ELSE None

(***************************************************************************)
(* IntegerIntervalMap                                                      *)
(***************************************************************************)
\* The derived Ord of ContiguousIntegerSet: lexicographic, start then end.
KeyLt(a, b) == a[1] < b[1] \/ (a[1] = b[1] /\ a[2] < b[2])

\* The keys of a set in ascending order, as a BTreeMap iterates them.
RECURSIVE Ascending(_)
Ascending(S) ==
    IF S = {} THEN <<>>
    ELSE LET least == CHOOSE k \in S : \A o \in S : o = k \/ KeyLt(k, o)
         IN  <<least>> \o Ascending(S \ {least})

\* The candidates without the key that precedes the window.
CandidatesWindowOnly(m, key) ==
    Ascending({k \in DOMAIN m :
                  /\ ~KeyLt(k, New(key[1], key[1]))
                  /\ KeyLt(k, New(key[2] + 1, key[2] + 1))})

\* The keys aggregate() visits: map.range((start, start)..(end + 1, end + 1))
\* chained with the last key of map.range(..(start, start)).
Candidates(m, key) ==
    LET window == {k \in DOMAIN m :
                      /\ ~KeyLt(k, New(key[1], key[1]))
                      /\ KeyLt(k, New(key[2] + 1, key[2] + 1))}
        before == {k \in DOMAIN m : KeyLt(k, New(key[1], key[1]))}
    IN  Ascending(window)
          \o (IF before = {} THEN <<>> ELSE <<Last(Ascending(before))>>)

\* BTreeMap::range panics when the start of the range is greater than its
\* end: here when (end + 1, end + 1) < (start, start).
RangePanics(key) == KeyLt(New(key[2] + 1, key[2] + 1), New(key[1], key[1]))

\* A loop that records the intersections without shrinking the remaining
\* interval.
RECURSIVE AggregateCommonKeepsRemaining(_, _, _, _)
AggregateCommonKeepsRemaining(intersection, remaining, to_add, sum) ==
    IF intersection = <<>> THEN <<remaining, to_add>>
    ELSE AggregateCommonKeepsRemaining(Tail(intersection), remaining,
                         Append(to_add, <<Head(intersection), sum>>), sum)

\* `for &common_interval in intersection`: shrink the remaining interval and
\* record the intersection with the summed value.  Returns
\* <<remaining_interval, to_add>>.
RECURSIVE AggregateCommon(_, _, _, _)
AggregateCommon(intersection, remaining, to_add, sum) ==
    IF intersection = <<>> THEN <<remaining, to_add>>
    ELSE AggregateCommon(Tail(intersection),
                         SetSubRange(remaining, Head(intersection)),
                         Append(to_add, <<Head(intersection), sum>>), sum)

\* `for outstanding_interval in (interval - intersection)`
RECURSIVE AggregateOutstanding(_, _, _)
AggregateOutstanding(outstanding, to_add, val) ==
    IF outstanding = <<>> THEN to_add
    ELSE AggregateOutstanding(Tail(outstanding),
                              Append(to_add, <<Head(outstanding), val>>), val)

\* The loop of aggregate() over the candidate keys.  Returns
\* <<remaining_interval, to_add>>.
RECURSIVE AggregateLoop(_, _, _, _, _)
AggregateLoop(m, cands, remaining, to_add, value) ==
    IF cands = <<>> THEN <<remaining, to_add>>
    ELSE LET interval == Head(cands)
             val == m[interval]
             intersection == RangeIntersectSet(interval, remaining)
             c == AggregateCommon(intersection, remaining, to_add, val + value)
             t == AggregateOutstanding(RangeSubSet(interval, intersection), c[2], val)
         IN  AggregateLoop(m, Tail(cands), c[1], t, value)

\* `for i in remaining_interval.into_non_empty_intervals()`
RECURSIVE AggregateRemaining(_, _, _)
AggregateRemaining(remaining, to_add, value) ==
    IF remaining = <<>> THEN to_add
    ELSE AggregateRemaining(Tail(remaining),
                            Append(to_add, <<Head(remaining), value>>), value)

\* BTreeMap::insert of every pair of to_add, in order
RECURSIVE InsertAll(_, _)
InsertAll(m, to_add) ==
    IF to_add = <<>> THEN m
    ELSE InsertAll((Head(to_add)[1] :> Head(to_add)[2]) @@ m, Tail(to_add))

\* A removal that removes nothing.
RemoveNone(m, to_remove) == m

\* BTreeMap::remove of every key of to_remove
RemoveAll(m, to_remove) ==
    [k \in DOMAIN m \ {to_remove[i] : i \in 1..Len(to_remove)} |-> m[k]]

\* IntegerIntervalMap::aggregate
Aggregate(m, key, value) ==
    LET cands == Candidates(m, key)
        l == AggregateLoop(m, cands, FromContiguousIntegerSets(<<key>>), <<>>, value)
        to_add == AggregateRemaining(RemoveEmptyIntervals(l[1]), l[2], value)
    IN  InsertAll(RemoveAll(m, cands), to_add)

\* IntegerIntervalMap::get: exact-key lookup
Get(m, key) == IF key \in DOMAIN m THEN Some(m[key]) ELSE None

(***************************************************************************)
(* iter::common_refinement_zip                                             *)
(***************************************************************************)
SetMin(S) == CHOOSE x \in S : \A y \in S : x <= y

\* The first element a source yields when it is registered, and what it has
\* left: <<interval, value, rest>> as common_refinement_zip and
\* common_refinement_flat_zip store them.
Register(source) ==
    IF source = <<>> THEN <<None, None, <<>>>>
    ELSE <<Some(Head(source)[1]), Some(Head(source)[2]), Tail(source)>>

\* `starts` and `ends` of next(): the BTreeSets of the current ranges' bounds
Starts(ivs) == {Unwrap(ivs[k])[1] : k \in {j \in 1..Len(ivs) : IsSome(ivs[j])}}
Ends(ivs) == {Unwrap(ivs[k])[2] : k \in {j \in 1..Len(ivs) : IsSome(ivs[j])}}

\* A refinement that ignores the second smallest start.
MinRefinementToMinEnd(ivs) == New(SetMin(Starts(ivs)), SetMin(Ends(ivs)))

\* `min_refinement` of next(), for current ranges that are not all None
MinRefinement(ivs) ==
    LET starts == Starts(ivs)
        min_start == SetMin(starts)
        later == starts \ {min_start}
        min_end == SetMin(Ends(ivs))
    IN  IF later # {}
        THEN IF SetMin(later) <= min_end
             THEN New(min_start, SetMin(later) - 1)
             ELSE New(min_start, min_end)
        ELSE New(min_start, min_end)

\* Whether source k's current range intersects the refinement
Hit(ivs, k, ref) == IsSome(ivs[k]) /\ HasNonEmptyIntersectionWith(Unwrap(ivs[k]), ref)

\* Whether source k's current range is used up by the refinement, so that
\* the source is pulled
Pulls(ivs, k, ref) == Hit(ivs, k, ref) /\ IsEmpty(New(ref[2] + 1, Unwrap(ivs[k])[2]))

\* The check next() makes of an element it pulls against the range it
\* replaces: it makes none, so no pull fails.
PullFails(old, new) == FALSE

\* Refinement values that report every current value.
RefinementValuesOfAll(ivs, vals, ref) == vals

\* `refinement_values` of next()
RefinementValues(ivs, vals, ref) ==
    [k \in 1..Len(ivs) |-> IF Hit(ivs, k, ref) THEN vals[k] ELSE None]

\* Current ranges that are not cut down to their remainder.
IntervalsAfterWithoutRemainder(ivs, its, ref) ==
    [k \in 1..Len(ivs) |->
        IF Pulls(ivs, k, ref)
        THEN IF its[k] = <<>> THEN None ELSE Some(Head(its[k])[1])
        ELSE ivs[k]]

\* CommonRefinementZipped.intervals after the loop of next()
IntervalsAfter(ivs, its, ref) ==
    [k \in 1..Len(ivs) |->
        IF Pulls(ivs, k, ref)
        THEN IF its[k] = <<>> THEN None ELSE Some(Head(its[k])[1])
        ELSE IF Hit(ivs, k, ref) THEN Some(New(ref[2] + 1, Unwrap(ivs[k])[2]))
        ELSE ivs[k]]

\* CommonRefinementZipped.values after the loop of next()
ValuesAfter(ivs, vals, its, ref) ==
    [k \in 1..Len(ivs) |->
        IF Pulls(ivs, k, ref)
        THEN IF its[k] = <<>> THEN None ELSE Some(Head(its[k])[2])
        ELSE vals[k]]

\* CommonRefinementZipped.iters after the loop of next()
ItersAfter(ivs, its, ref) ==
    [k \in 1..Len(ivs) |->
        IF Pulls(ivs, k, ref) /\ its[k] # <<>> THEN Tail(its[k]) ELSE its[k]]

(***************************************************************************)
(* iter::binned_interval_iter                                              *)
(***************************************************************************)
\* Integer division of i64: the quotient is truncated toward zero.
TruncDiv(a, b) ==
    IF (a >= 0) = (b > 0) \/ a = 0
    THEN (IF a >= 0 THEN a ELSE -a) \div (IF b > 0 THEN b ELSE -b)
    ELSE -((IF a >= 0 THEN a ELSE -a) \div (IF b > 0 THEN b ELSE -b))

\* What BinnedIntervalIter::new does with a bin size: the assertion
\* `bin_size >= 1` fails ("panicked") or the iterator is returned ("ready").
NewOutcomeUnchecked(size) == "ready"

NewOutcome(size) == IF size >= 1 THEN "ready" ELSE "panicked"

\* A first bin start computed with the truncating division on both sides of 0.
FirstOverlapBinStartTruncating(interval_start, size) ==
    TruncDiv(interval_start, size) * size

\* `first_overlap_bin_start` of next()
FirstOverlapBinStart(interval_start, size) ==
    IF interval_start >= 0
    THEN TruncDiv(interval_start, size) * size
    ELSE TruncDiv(interval_start - (size - 1), size) * size

\* `bin_start` of next()
BinStart(old_bin, interval_start, size) ==
    IF old_bin = None THEN FirstOverlapBinStart(interval_start, size)
    ELSE IF Unwrap(old_bin)[2] < interval_start
    THEN FirstOverlapBinStart(interval_start, size)
    ELSE Unwrap(old_bin)[2] + 1

\* A fold whose Sum adds the raw value.
FoldUnweighted(op, aggregate, val, bin, interval) ==
    IF aggregate = None THEN Some(val)
    ELSE IF op = "Max" THEN Some(Max(Unwrap(aggregate), val))
    ELSE IF op = "Min" THEN Some(Min(Unwrap(aggregate), val))
    ELSE Some(Unwrap(aggregate) + val)

\* The `aggregate = match self.aggregate_op` step of the loop of next()
Fold(op, aggregate, val, bin, interval) ==
    IF op = "Max"
    THEN Some(IF aggregate = None THEN val
              ELSE IF Unwrap(aggregate) < val THEN val ELSE Unwrap(aggregate))
    ELSE IF op = "Min"
    THEN Some(IF aggregate = None THEN val
              ELSE IF Unwrap(aggregate) > val THEN val ELSE Unwrap(aggregate))
    ELSE LET overlap == Intersect(bin, interval)
         IN  Some((IF aggregate = None THEN 0 ELSE Unwrap(aggregate))
                    + val * (IF IsSome(overlap) THEN Size(Unwrap(overlap)) ELSE 0))

\* A pull that is never checked against the interval before it.
PullUnchecked(interval_end_inclusive, i) == TRUE

\* The assertion next() makes on each interval it pulls:
\* `interval_end_inclusive < i.get_start()`
PullOrdered(interval_end_inclusive, i) == interval_end_inclusive < i[1]

\* The loop of next().  Returns <<aggregate, current_interval_val, iter,
\* panicked>>: panicked when the assertion on a pulled interval fails.
RECURSIVE BinLoop(_, _, _, _, _, _)
BinLoop(op, aggregate, interval, val, rest, bin) ==
    LET agg == Fold(op, aggregate, val, bin, interval)
    IN  IF interval[2] <= bin[2]
        THEN IF rest = <<>> THEN <<agg, None, rest, FALSE>>
             ELSE LET i == Head(rest)[1]
                      v == Head(rest)[2]
                  IN  IF ~PullOrdered(interval[2], i)
                      THEN <<agg, Some(Head(rest)), Tail(rest), TRUE>>
                      ELSE IF i[1] > bin[2]
                      THEN <<agg, Some(Head(rest)), Tail(rest), FALSE>>
                      ELSE BinLoop(op, agg, i, v, Tail(rest), bin)
        ELSE <<agg, Some(<<interval, val>>), rest, FALSE>>

(***************************************************************************)
(* Specification SpecCollect: collect() called on an initially empty set   *)
(***************************************************************************)
Elems == 0..MaxElem

BuildIdle ==
    /\ input = <<>> /\ perm = <<>> /\ built = None /\ builtPerm = None
    /\ ctor = "none"

CollectIdle == intervals = <<>> /\ items = <<>>

Coords == 0..MaxKeyCoord

MapIdle ==
    /\ map = <<>> /\ superposed = [x \in Coords |-> 0] /\ covered = {}
    /\ ncalls = 0 /\ mpanicked = FALSE

BinIdle ==
    /\ bsrc = <<>> /\ biter = <<>> /\ bin_size = 1 /\ aggregate_op = "Sum"
    /\ current_interval_val = None /\ current_bin = None /\ bout = <<>>
    /\ bstate = "unbuilt"

CallIdle == args = <<>> /\ called = "none" /\ ret = <<>>

ZipIdle ==
    /\ zsrc = <<>> /\ iters = <<>> /\ zintervals = <<>> /\ zvalues = <<>>
    /\ emitted = <<>> /\ started = FALSE /\ aborted = FALSE

InitCollect == CollectIdle /\ BuildIdle /\ MapIdle /\ ZipIdle /\ BinIdle /\ CallIdle

DoCollect ==
    /\ Len(items) < MaxItems
    /\ \E x \in Elems :
          /\ intervals' = Collect(intervals, x)
          /\ items' = Append(items, x)
    /\ UNCHANGED buildVars
    /\ UNCHANGED mapVars
    /\ UNCHANGED zipVars
    /\ UNCHANGED binVars
    /\ UNCHANGED callVars

NextCollect == DoCollect

SpecCollect == InitCollect /\ [][NextCollect]_vars

\* The singleton ranges [x, x] of the collected elements, in call order.
Singletons(s) == [k \in 1..Len(s) |-> New(s[k], s[k])]

\* C2: collecting a sequence of integers one at a time into an empty set
\* yields the same fragment list as from_slice on their singleton ranges.
C2_CollectEqualsBulk == intervals = FromSlice(Singletons(items))

(***************************************************************************)
(* Specification SpecBuild: the constructors of OrderedIntegerSet          *)
(***************************************************************************)
\* Ranges handed to the constructors: the non-empty ranges over 0..MaxCoord
\* and, per start, the two empty ranges that end one and two below it.
BuildRanges == {r \in (0..MaxCoord) \X (-2..MaxCoord) : r[2] >= r[1] - 2}

RECURSIVE ListsUpTo(_, _)
ListsUpTo(S, n) ==
    IF n = 0 THEN {<<>>}
    ELSE LET shorter == ListsUpTo(S, n - 1)
         IN  shorter \cup {Append(l, x) : l \in {m \in shorter : Len(m) = n - 1}, x \in S}

IndexPermutations(n) == {p \in [1..n -> 1..n] : \A i, j \in 1..n : p[i] = p[j] => i = j}
Permuted(s, p) == [k \in 1..Len(s) |-> s[p[k]]]

InitBuild ==
    /\ input \in ListsUpTo(BuildRanges, MaxRanges)
    /\ perm = input /\ built = None /\ builtPerm = None /\ ctor = "none"
    /\ CollectIdle
    /\ MapIdle
    /\ ZipIdle
    /\ BinIdle
    /\ CallIdle

BuildFromSlice ==
    /\ ctor = "none"
    /\ \E p \in IndexPermutations(Len(input)) :
          /\ perm' = Permuted(input, p)
          /\ builtPerm' = Some(FromSlice(Permuted(input, p)))
    /\ built' = Some(FromSlice(input))
    /\ ctor' = "from_slice"
    /\ UNCHANGED <<input, intervals, items>>
    /\ UNCHANGED mapVars
    /\ UNCHANGED zipVars
    /\ UNCHANGED binVars
    /\ UNCHANGED callVars

BuildFromVec ==
    /\ ctor = "none"
    /\ \E p \in IndexPermutations(Len(input)) :
          /\ perm' = Permuted(input, p)
          /\ builtPerm' = Some(FromVec(Permuted(input, p)))
    /\ built' = Some(FromVec(input))
    /\ ctor' = "from"
    /\ UNCHANGED <<input, intervals, items>>
    /\ UNCHANGED mapVars
    /\ UNCHANGED zipVars
    /\ UNCHANGED binVars
    /\ UNCHANGED callVars

BuildFromContiguousIntegerSets ==
    /\ ctor = "none"
    /\ \E p \in IndexPermutations(Len(input)) :
          /\ perm' = Permuted(input, p)
          /\ builtPerm' = Some(FromContiguousIntegerSets(Permuted(input, p)))
    /\ built' = Some(FromContiguousIntegerSets(input))
    /\ ctor' = "from_contiguous_integer_sets"
    /\ UNCHANGED <<input, intervals, items>>
    /\ UNCHANGED mapVars
    /\ UNCHANGED zipVars
    /\ UNCHANGED binVars
    /\ UNCHANGED callVars

NextBuild == BuildFromSlice \/ BuildFromVec \/ BuildFromContiguousIntegerSets

SpecBuild == InitBuild /\ [][NextBuild]_vars

\* C3: every constructed set is canonical (fragments non-empty, ascending,
\* consecutive fragments separated by a gap) and its members are exactly the
\* union of the input ranges.
C3_BuiltCanonical ==
    IsSome(built) =>
        /\ Canonical(Unwrap(built))
        /\ Members(Unwrap(built)) = Members(input)

\* C4: construction from a list and from any permutation of it produce the
\* same fragment list.
C4_OrderIndependent ==
    (IsSome(built) /\ IsSome(builtPerm)) => Unwrap(built) = Unwrap(builtPerm)

(***************************************************************************)
(* Specification SpecMap: aggregate() called on an initially empty map     *)
(***************************************************************************)
\* The non-empty keys within the coordinates of the model
Keys == {r \in Coords \X Coords : r[1] <= r[2]}

AnyKeys == {r \in Coords \X (-2..MaxKeyCoord) : r[2] >= r[1] - 2}

\* The values aggregated; a negative one lets superposed values cancel.
Values == {-1, 1, 2}

InitMap == MapIdle /\ BuildIdle /\ CollectIdle /\ ZipIdle /\ BinIdle /\ CallIdle

AggregateFrom(pool) ==
    /\ ncalls < MaxCalls
    /\ ~mpanicked
    /\ \E key \in pool, value \in Values :
          IF RangePanics(key)
          THEN mpanicked' = TRUE /\ UNCHANGED <<map, superposed, covered>>
          ELSE /\ map' = Aggregate(map, key, value)
               /\ superposed' = [x \in Coords |->
                                    IF Contains(key, x) THEN superposed[x] + value
                                    ELSE superposed[x]]
               /\ covered' = covered \cup (key[1]..key[2])
               /\ UNCHANGED mpanicked
    /\ ncalls' = ncalls + 1
    /\ UNCHANGED buildVars
    /\ UNCHANGED collectVars
    /\ UNCHANGED zipVars
    /\ UNCHANGED binVars
    /\ UNCHANGED callVars

\* aggregate(key, value) with a non-empty key
DoAggregate == AggregateFrom(Keys)

\* aggregate(key, value) with any key, empty ones included
DoAggregateAny == AggregateFrom(AnyKeys)

NextMap == DoAggregate
NextMapAny == DoAggregateAny

SpecMap == InitMap /\ [][NextMap]_vars

SpecMapAny == InitMap /\ [][NextMapAny]_vars

KeysContaining(x) == {k \in DOMAIN map : Contains(k, x)}

\* C1: after any sequence of aggregate calls on an empty map, every integer
\* in some aggregated range lies in exactly one stored key, whose value is
\* the sum of the values aggregated over that integer; every other integer
\* lies in no stored key.
C1_Superposition ==
    /\ \A x \in covered :
          /\ Cardinality(KeysContaining(x)) = 1
          /\ \A k \in KeysContaining(x) : map[k] = superposed[x]
    /\ \A x \in (-1..MaxKeyCoord + 1) \ covered : KeysContaining(x) = {}
    /\ \A k \in DOMAIN map : k[1] >= 0 /\ k[2] <= MaxKeyCoord

\* A state in which three overlapping aggregations have split the keys: an
\* earlier key was cut in two around a later one and three values add up.
C1_Witness ==
    /\ ncalls = 3
    /\ Cardinality(DOMAIN map) >= 4
    /\ \E x \in covered : \E k \in KeysContaining(x) : map[k] = 5

\* C12: after every aggregate call, whatever the keys aggregated (empty ones
\* included), the stored keys are non-empty and pairwise disjoint.
C12_KeysDisjoint ==
    /\ \A k \in DOMAIN map : ~IsEmpty(k)
    /\ \A k1, k2 \in DOMAIN map :
          k1 # k2 => (k1[1]..k1[2]) \cap (k2[1]..k2[2]) = {}

\* Three calls whose ranges overlap one another have left at least three
\* keys, two of them adjacent.
C12_Witness ==
    /\ ncalls = 3
    /\ Cardinality(DOMAIN map) >= 3
    /\ \E k1, k2 \in DOMAIN map : k1[2] + 1 = k2[1]
    /\ \E x \in covered : superposed[x] = 4

(***************************************************************************)
(* Specifications SpecZip and SpecZipAny: sources are zipped               *)
(* (common_refinement_zip, then common_refinement_flat_zip) and the zip is *)
(* iterated.  In SpecZip every source keeps the contract: non-empty,       *)
(* pairwise disjoint ranges in strictly ascending order.  In SpecZipAny a  *)
(* source yields any non-empty ranges in any order.                        *)
(***************************************************************************)
ZipCoords == 0..MaxZipCoord
ZipRanges == {r \in ZipCoords \X ZipCoords : r[1] <= r[2]}

RangeLists == ListsUpTo(ZipRanges, MaxZipCoord + 1)

Ascends(l) == \A i \in 1..Len(l) - 1 : l[i][2] < l[i + 1][1]

\* The value of the j-th element of the t-th source is 10 * t + j: all the
\* values are distinct, and next() only clones them.
WithValues(l, t) == [j \in 1..Len(l) |-> <<l[j], 10 * t + j>>]

AscendingLists == {m \in RangeLists : Ascends(m)}
ShortLists == {m \in RangeLists : Len(m) <= 2}

ContractSources(t) == {WithValues(l, t) : l \in AscendingLists}
AnySources(t) == {WithValues(l, t) : l \in ShortLists}

\* The state common_refinement_zip(self, other) constructs
Zipped(self, other) ==
    /\ zsrc = <<self, other>>
    /\ iters = <<Register(self)[3], Register(other)[3]>>
    /\ zintervals = <<Register(self)[1], Register(other)[1]>>
    /\ zvalues = <<Register(self)[2], Register(other)[2]>>
    /\ emitted = <<>> /\ started = FALSE /\ aborted = FALSE

InitZip ==
    /\ \E self \in ContractSources(1), other \in ContractSources(2) : Zipped(self, other)
    /\ BuildIdle /\ CollectIdle /\ MapIdle /\ BinIdle /\ CallIdle

InitZipAny ==
    /\ \E self \in AnySources(1), other \in AnySources(2) : Zipped(self, other)
    /\ BuildIdle /\ CollectIdle /\ MapIdle /\ BinIdle /\ CallIdle

\* common_refinement_flat_zip(other), before the iteration starts
FlatZip(pool) ==
    /\ ~started
    /\ Len(zsrc) < MaxSources
    /\ \E other \in pool :
          /\ zsrc' = Append(zsrc, other)
          /\ iters' = Append(iters, Register(other)[3])
          /\ zintervals' = Append(zintervals, Register(other)[1])
          /\ zvalues' = Append(zvalues, Register(other)[2])
    /\ UNCHANGED <<emitted, started, aborted>>
    /\ UNCHANGED <<buildVars, collectVars, mapVars, binVars, callVars>>

FlatZipContract == FlatZip(ContractSources(Len(zsrc) + 1))
FlatZipAny == FlatZip(AnySources(Len(zsrc) + 1))

\* next() returning Some((min_refinement, refinement_values))
ZipNextSome ==
    /\ ~aborted
    /\ Starts(zintervals) # {}
    /\ LET ref == MinRefinement(zintervals)
           failing == {k \in 1..Len(zintervals) :
                          /\ Pulls(zintervals, k, ref)
                          /\ iters[k] # <<>>
                          /\ PullFails(Unwrap(zintervals[k]), Head(iters[k])[1])}
       IN  /\ aborted' = (failing # {})
           /\ emitted' = IF failing # {} THEN emitted
                         ELSE Append(emitted,
                                     <<ref, RefinementValues(zintervals, zvalues, ref)>>)
           /\ zintervals' = IntervalsAfter(zintervals, iters, ref)
           /\ zvalues' = ValuesAfter(zintervals, zvalues, iters, ref)
           /\ iters' = ItersAfter(zintervals, iters, ref)
    /\ started' = TRUE
    /\ UNCHANGED zsrc
    /\ UNCHANGED <<buildVars, collectVars, mapVars, binVars, callVars>>

\* next() returning None: every source is exhausted
ZipNextNone ==
    /\ ~aborted
    /\ Starts(zintervals) = {}
    /\ started' = TRUE
    /\ UNCHANGED <<zsrc, iters, zintervals, zvalues, emitted, aborted>>
    /\ UNCHANGED <<buildVars, collectVars, mapVars, binVars, callVars>>

NextZip == FlatZipContract \/ ZipNextSome \/ ZipNextNone
NextZipAny == FlatZipAny \/ ZipNextSome \/ ZipNextNone

SpecZip == InitZip /\ [][NextZip]_vars
SpecZipAny == InitZipAny /\ [][NextZipAny]_vars

\* The ranges of source k that contain, and that intersect, a range r
Containing(k, r) == {j \in 1..Len(zsrc[k]) : r[1] >= zsrc[k][j][1][1] /\ r[2] <= zsrc[k][j][1][2]}
Meeting(k, r) == {j \in 1..Len(zsrc[k]) : r[1] <= zsrc[k][j][1][2] /\ r[2] >= zsrc[k][j][1][1]}

\* C5: every emitted item (r, vals) has one entry per source; the entry of
\* source k is Some(v) when a range of source k with value v contains r and
\* None when no range of source k intersects r; r is never partly inside a
\* range of a source.
C5_ZipValues ==
    \A n \in 1..Len(emitted) :
        LET r == emitted[n][1]
            vals == emitted[n][2]
        IN  /\ Len(vals) = Len(zsrc)
            /\ \A k \in 1..Len(zsrc) :
                  /\ Meeting(k, r) = Containing(k, r)
                  /\ \A j \in Containing(k, r) : vals[k] = Some(zsrc[k][j][2])
                  /\ Meeting(k, r) = {} => vals[k] = None

\* Three sources were zipped and an item was emitted that lies inside a
\* longer range of one source, inside a range of another and outside every
\* range of the third.
C5_Witness ==
    /\ Len(zsrc) = 3
    /\ \E n \in 1..Len(emitted) :
          /\ \E k \in 1..3 : emitted[n][2][k] = None /\ zsrc[k] # <<>>
          /\ \E k \in 1..3 : \E j \in Containing(k, emitted[n][1]) :
                zsrc[k][j][1] # emitted[n][1] /\ emitted[n][2][k] = Some(10 * k + j)
          /\ Cardinality({k \in 1..3 : emitted[n][2][k] # None}) = 2

\* [minStart, min(minEnd, secondSmallestStart - 1)] of the current ranges
Boundary(ivs) ==
    LET lo == SetMin(Starts(ivs))
    IN  New(lo, SetMin(Ends(ivs) \cup {st - 1 : st \in Starts(ivs) \ {lo}}))

EmittedRanges == [n \in 1..Len(emitted) |-> emitted[n][1]]
SourceRanges(k) == [j \in 1..Len(zsrc[k]) |-> zsrc[k][j][1]]
Exhausted == Starts(zintervals) = {}

C6_Emitted ==
    /\ \A n \in 1..Len(emitted) : ~IsEmpty(emitted[n][1])
    /\ \A n \in 1..Len(emitted) - 1 : emitted[n][1][2] < emitted[n + 1][1][1]
    /\ Exhausted =>
          Members(EmittedRanges) = UNION {Members(SourceRanges(k)) : k \in 1..Len(zsrc)}

C6_Step ==
    emitted' # emitted =>
        /\ emitted' = Append(emitted, Last(emitted'))
        /\ Last(emitted')[1] = Boundary(zintervals)

C7_AbortsOnDisorder ==
    (\E k \in 1..Len(zsrc) : \E j \in 2..Len(zsrc[k]) :
        /\ Len(iters[k]) <= Len(zsrc[k]) - j
        /\ zsrc[k][j][1][1] <= zsrc[k][j - 1][1][2])
    => aborted

(***************************************************************************)
(* Specification SpecBin: a BinnedIntervalIter is constructed over a       *)
(* source that keeps the contract (non-empty, pairwise disjoint ranges in  *)
(* strictly ascending order) and is iterated.                              *)
(***************************************************************************)
BinCoords == (-MaxBinCoord)..MaxBinCoord
BinRanges == {r \in BinCoords \X BinCoords : r[1] <= r[2]}
BinValues == {-1, 2}
BinSizes == (-1)..MaxBinSize
AggregateOps == {"Max", "Min", "Sum"}

\* The sources of at most n ranges, all at or after lo, in ascending order
RECURSIVE SourcesFrom(_, _)
SourcesFrom(lo, n) ==
    IF n = 0 THEN {<<>>}
    ELSE {<<>>} \cup UNION {{<<<<r, v>>>> \o t : t \in SourcesFrom(r[2] + 1, n - 1)} :
                              r \in {q \in BinRanges : q[1] >= lo}, v \in BinValues}

BinSources == SourcesFrom(-MaxBinCoord, MaxBinSourceLen)

InitBin ==
    /\ bsrc \in BinSources
    /\ biter = bsrc
    /\ bin_size \in BinSizes
    /\ aggregate_op \in AggregateOps
    /\ current_interval_val = None /\ current_bin = None /\ bout = <<>>
    /\ bstate = "unbuilt"
    /\ BuildIdle /\ CollectIdle /\ MapIdle /\ ZipIdle /\ CallIdle

\* BinnedIntervalIter::new
BinNew ==
    /\ bstate = "unbuilt"
    /\ bstate' = NewOutcome(bin_size)
    /\ IF NewOutcome(bin_size) = "ready" /\ biter # <<>>
       THEN current_interval_val' = Some(Head(biter)) /\ biter' = Tail(biter)
       ELSE UNCHANGED <<current_interval_val, biter>>
    /\ UNCHANGED <<bsrc, bin_size, aggregate_op, current_bin, bout>>
    /\ UNCHANGED <<buildVars, collectVars, mapVars, zipVars, callVars>>

\* next() returning Some((bin, aggregate)), or panicking
BinNextSome ==
    /\ bstate = "ready"
    /\ current_interval_val # None
    /\ LET interval == Unwrap(current_interval_val)[1]
           val == Unwrap(current_interval_val)[2]
           bin_start == BinStart(current_bin, interval[1], bin_size)
           bin == New(bin_start, bin_start + bin_size - 1)
           l == BinLoop(aggregate_op, None, interval, val, biter, bin)
       IN  /\ current_bin' = Some(bin)
           /\ current_interval_val' = l[2]
           /\ biter' = l[3]
           /\ bstate' = IF l[4] THEN "panicked" ELSE "ready"
           /\ bout' = IF l[4] THEN bout ELSE Append(bout, <<bin, Unwrap(l[1])>>)
    /\ UNCHANGED <<bsrc, bin_size, aggregate_op>>
    /\ UNCHANGED <<buildVars, collectVars, mapVars, zipVars, callVars>>

\* next() returning None
BinNextNone ==
    /\ bstate = "ready"
    /\ current_interval_val = None
    /\ UNCHANGED vars

NextBin == BinNew \/ BinNextSome \/ BinNextNone

SpecBin == InitBin /\ [][NextBin]_vars

(***************************************************************************)
(* Specification SpecBinAny: as SpecBin, over a source that yields         *)
(* non-empty ranges in any order, overlapping or not.  The values play no  *)
(* part in the check of the order, so every range carries the same value.  *)
(***************************************************************************)
AnyBinRanges == {r \in (0..MaxBinCoord) \X (0..MaxBinCoord) : r[1] <= r[2]}
AnyBinSources == ListsUpTo(AnyBinRanges \X {2}, MaxBinSourceLen)

InitBinAny ==
    /\ bsrc \in AnyBinSources
    /\ biter = bsrc
    /\ bin_size \in BinSizes
    /\ aggregate_op \in AggregateOps
    /\ current_interval_val = None /\ current_bin = None /\ bout = <<>>
    /\ bstate = "unbuilt"
    /\ BuildIdle /\ CollectIdle /\ MapIdle /\ ZipIdle /\ CallIdle

SpecBinAny == InitBinAny /\ [][NextBin]_vars

\* The number of ranges pulled from the source so far
Pulled == Len(bsrc) - Len(biter)

\* The positions j of the source whose range starts at or before the end of
\* the range at j - 1
Disordered == {j \in 2..Len(bsrc) : bsrc[j][1][1] <= bsrc[j - 1][1][2]}

\* C11: once the range at a position j has been pulled whose start is at or
\* before the end of the range pulled immediately before it, the iterator has
\* panicked, and it did so on pulling the first such range: nothing was
\* pulled after it.  A step that pulls such a range panics and emits nothing.
C11_Panicked ==
    \A j \in Disordered :
        Pulled >= j => bstate = "panicked" /\ \A i \in Disordered : Pulled <= i

C11_Step ==
    (\E j \in Disordered : Pulled < j /\ Pulled' >= j) =>
        bstate' = "panicked" /\ bout' = bout

RECURSIVE WeightedSum(_, _)
WeightedSum(src, bin) ==
    IF src = <<>> THEN 0
    ELSE Head(src)[2] * Cardinality((Head(src)[1][1]..Head(src)[1][2]) \cap (bin[1]..bin[2]))
           + WeightedSum(Tail(src), bin)

ValuesIn(bin) ==
    {bsrc[j][2] : j \in {i \in 1..Len(bsrc) :
                            (bsrc[i][1][1]..bsrc[i][1][2]) \cap (bin[1]..bin[2]) # {}}}

\* C8: with Sum an emitted aggregate is the sum over the source pairs (r, v)
\* of v times the number of integers of r in the bin; with Max (Min) it is
\* the largest (smallest) v among the source ranges that intersect the bin.
C8_BinAggregate ==
    \A n \in 1..Len(bout) :
        LET bin == bout[n][1]
            agg == bout[n][2]
        IN  /\ aggregate_op = "Sum" => agg = WeightedSum(bsrc, bin)
            /\ aggregate_op = "Max" =>
                  agg \in ValuesIn(bin) /\ \A v \in ValuesIn(bin) : v <= agg
            /\ aggregate_op = "Min" =>
                  agg \in ValuesIn(bin) /\ \A v \in ValuesIn(bin) : v >= agg

\* A Sum was emitted for a bin that holds all of one source range and part
\* of another, with different values, and a Sum was emitted for a bin that
\* holds more than one integer of a source range.
C8_Witness ==
    /\ aggregate_op = "Sum"
    /\ \E n \in 1..Len(bout) :
          /\ Cardinality(ValuesIn(bout[n][1])) = 2
          /\ \E j \in 1..Len(bsrc) :
                /\ bsrc[j][1][1] <= bout[n][1][2]
                /\ bsrc[j][1][2] > bout[n][1][2]
    /\ \E n \in 1..Len(bout) : \E j \in 1..Len(bsrc) :
          /\ bsrc[j][1][1] <= bout[n][1][1]
          /\ bsrc[j][1][2] > bout[n][1][1]
          /\ bout[n][2] = Size(Unwrap(Intersect(bout[n][1], bsrc[j][1]))) * bsrc[j][2]

AlignedBins ==
    {New(k * bin_size, k * bin_size + bin_size - 1) :
        k \in (-MaxBinCoord - 1)..(MaxBinCoord + 1)}

BinsOfSource ==
    {b \in AlignedBins :
        \E j \in 1..Len(bsrc) : (bsrc[j][1][1]..bsrc[j][1][2]) \cap (b[1]..b[2]) # {}}

\* C9: every emitted bin is [k * binSize, k * binSize + binSize - 1] for an
\* integer k, the bins are emitted in strictly ascending order, and when the
\* iterator is exhausted the emitted bins are exactly the aligned bins that
\* intersect a source range.
C9_BinsAligned ==
    /\ \A n \in 1..Len(bout) :
          /\ bout[n][1][1] % bin_size = 0
          /\ bout[n][1][2] = bout[n][1][1] + bin_size - 1
          /\ bout[n][1] \in BinsOfSource
    /\ \A n \in 1..Len(bout) - 1 : bout[n][1][2] < bout[n + 1][1][1]
    /\ (bstate = "ready" /\ current_interval_val = None) =>
          {bout[n][1] : n \in 1..Len(bout)} = BinsOfSource

\* The iterator is exhausted after emitting a bin below 0 and a bin above,
\* with bins wider than 1 and a source range that starts off a bin start.
C9_Witness ==
    /\ bstate = "ready" /\ current_interval_val = None
    /\ bin_size >= 2
    /\ Len(bout) >= 2
    /\ bout[1][1][1] < 0
    /\ bsrc[1][1][1] # bout[1][1][1]
    /\ bout[Len(bout)][1][1] >= 0

\* C10 as stated: constructing with a non-positive bin size returns an
\* explicit error value.
C10_NonPositiveBinSizeIsError ==
    (bstate # "unbuilt" /\ bin_size <= 0) => bstate = "error"

\* C10 as the code has it: constructing with a non-positive bin size fails
\* the assertion `bin_size >= 1`; no iterator and no error value is returned,
\* and nothing is pulled from the source.
C10_NonPositiveBinSizePanics ==
    (bstate # "unbuilt" /\ bin_size <= 0) =>
        /\ bstate = "panicked"
        /\ biter = bsrc /\ current_interval_val = None /\ bout = <<>>

C10_Witness == bstate = "panicked" /\ bin_size <= 0 /\ bsrc # <<>>

(***************************************************************************)
(* Specification SpecRefine: the common refinement of two partitions, each *)
(* a list of non-empty, pairwise disjoint ranges ascending by start, is    *)
(* computed both ways round.                                               *)
(***************************************************************************)
PartCoords == 0..MaxPartCoord
PartRanges == {r \in PartCoords \X PartCoords : r[1] <= r[2]}

\* The partitions of at most n ranges, all at or after lo
RECURSIVE PartitionsFrom(_, _)
PartitionsFrom(lo, n) ==
    IF n = 0 THEN {<<>>}
    ELSE {<<>>} \cup UNION {{<<r>> \o t : t \in PartitionsFrom(r[2] + 1, n - 1)} :
                              r \in {q \in PartRanges : q[1] >= lo}}

Partitions == PartitionsFrom(0, MaxPartCoord + 1)

InitRefine ==
    /\ args \in Partitions \X Partitions
    /\ called = "none" /\ ret = <<>>
    /\ BuildIdle /\ CollectIdle /\ MapIdle /\ ZipIdle /\ BinIdle

\* self.get_common_refinement(&other) and other.get_common_refinement(&self)
CallGetCommonRefinement ==
    /\ called = "none"
    /\ called' = "get_common_refinement"
    /\ ret' = <<GetCommonRefinement(args[1], args[2]),
                GetCommonRefinement(args[2], args[1])>>
    /\ UNCHANGED args
    /\ UNCHANGED <<buildVars, collectVars, mapVars, zipVars, binVars>>

NextRefine == CallGetCommonRefinement

SpecRefine == InitRefine /\ [][NextRefine]_vars

\* The index of the range of partition p that contains x, 0 when none does
Cell(p, x) == IF \E k \in 1..Len(p) : Contains(p[k], x)
              THEN CHOOSE k \in 1..Len(p) : Contains(p[k], x)
              ELSE 0

\* C13: the refinement's ranges are non-empty, strictly ascending and
\* pairwise disjoint; their union is the union of the ranges of P and Q;
\* each lies inside or outside every range of P and of Q; and they are
\* maximal: no two consecutive ones are adjacent and lie in the same ranges
\* of P and Q.
C13_Refinement ==
    called = "get_common_refinement" =>
        LET P == args[1]
            Q == args[2]
            R == ret[1]
        IN  /\ \A n \in 1..Len(R) : ~IsEmpty(R[n])
            /\ \A n \in 1..Len(R) - 1 : R[n][2] < R[n + 1][1]
            /\ Members(R) = Members(P) \cup Members(Q)
            /\ \A n \in 1..Len(R) : \A k \in 1..Len(P) :
                  IsSubsetOf(R[n], P[k]) \/ Intersect(R[n], P[k]) = None
            /\ \A n \in 1..Len(R) : \A k \in 1..Len(Q) :
                  IsSubsetOf(R[n], Q[k]) \/ Intersect(R[n], Q[k]) = None
            /\ \A n \in 1..Len(R) - 1 :
                  R[n][2] + 1 = R[n + 1][1] =>
                      \/ Cell(P, R[n][2]) # Cell(P, R[n + 1][1])
                      \/ Cell(Q, R[n][2]) # Cell(Q, R[n + 1][1])

\* A refinement of at least three ranges in which a range of P was cut by a
\* range of Q that starts inside it and ends beyond it.
C13_Witness ==
    /\ called = "get_common_refinement"
    /\ Len(ret[1]) >= 3
    /\ \E k \in 1..Len(args[1]) : \E l \in 1..Len(args[2]) :
          /\ args[1][k][1] < args[2][l][1]
          /\ args[2][l][1] <= args[1][k][2]
          /\ args[1][k][2] < args[2][l][2]

\* C14: P.get_common_refinement(Q) and Q.get_common_refinement(P) are the
\* same list of ranges.
C14_RefinementSymmetric ==
    called = "get_common_refinement" => ret[1] = ret[2]

\* Both refinements were computed for two different partitions that overlap.
C14_Witness ==
    /\ called = "get_common_refinement"
    /\ args[1] # args[2]
    /\ Members(args[1]) \cap Members(args[2]) # {}
    /\ Members(args[1]) \ Members(args[2]) # {}
    /\ Members(args[2]) \ Members(args[1]) # {}

(***************************************************************************)
(* Specification SpecSetOps: two canonical sets are subtracted and         *)
(* intersected.                                                            *)
(***************************************************************************)
SetCoords == 0..MaxSetCoord

\* The canonical fragment list of a finite set of integers: its maximal runs
RECURSIVE Fragments(_)
Fragments(S) ==
    IF S = {} THEN <<>>
    ELSE LET lo == SetMin(S)
             hi == CHOOSE h \in S : (lo..h) \subseteq S /\ (h + 1) \notin S
         IN  <<New(lo, hi)>> \o Fragments(S \ (lo..hi))

CanonicalSets == {Fragments(S) : S \in SUBSET SetCoords}

InitSetOps ==
    /\ args \in CanonicalSets \X CanonicalSets
    /\ called = "none" /\ ret = <<>>
    /\ BuildIdle /\ CollectIdle /\ MapIdle /\ ZipIdle /\ BinIdle

\* self - &rhs
CallSetSub ==
    /\ called = "none"
    /\ called' = "sub"
    /\ ret' = SetSub(args[1], args[2])
    /\ UNCHANGED args
    /\ UNCHANGED <<buildVars, collectVars, mapVars, zipVars, binVars>>

\* The ranges, empty ones included, a set is intersected with
SetOpRanges == {r \in SetCoords \X (-1..MaxSetCoord) : r[2] >= r[1] - 1}

\* self.intersect(&other) and other.intersect(&self)
CallSetIntersect ==
    /\ called = "none"
    /\ called' = "intersect"
    /\ ret' = <<SetIntersect(args[1], args[2]), SetIntersect(args[2], args[1])>>
    /\ UNCHANGED args
    /\ UNCHANGED <<buildVars, collectVars, mapVars, zipVars, binVars>>

\* range.intersect(&set) and set.intersect(&range)
CallRangeIntersect ==
    /\ called = "none"
    /\ called' = "intersect_range"
    /\ \E r \in SetOpRanges :
          /\ args' = <<r, args[2]>>
          /\ ret' = <<RangeIntersectSet(r, args[2]), SetIntersectRange(args[2], r)>>
    /\ UNCHANGED <<buildVars, collectVars, mapVars, zipVars, binVars>>

NextSetOps == CallSetSub \/ CallSetIntersect \/ CallRangeIntersect

SpecSetOps == InitSetOps /\ [][NextSetOps]_vars

\* C15: for canonical A and B, the members of A - B are the integers of A
\* that are not in B, and the fragment list returned is canonical.
C15_SetSub ==
    called = "sub" =>
        /\ Members(ret) = Members(args[1]) \ Members(args[2])
        /\ Canonical(ret)

\* A subtraction in which one fragment of A lost two separate parts to two
\* fragments of B, the second of which reaches beyond it into the next
\* fragment of A.
C15_Witness ==
    /\ called = "sub"
    /\ Len(args[1]) >= 2 /\ Len(args[2]) >= 2
    /\ Len(ret) >= 2
    /\ \E k \in 1..Len(args[1]) - 1 : \E l \in 1..Len(args[2]) - 1 :
          /\ args[1][k][1] <= args[2][l][1]
          /\ args[2][l + 1][1] <= args[1][k][2]
          /\ args[2][l + 1][2] >= args[1][k + 1][1]

\* C17: for canonical A and B, A.intersect(B) holds exactly the integers in
\* both, is canonical, and equals B.intersect(A); the same holds when one
\* operand is a single range.
C17_SetIntersect ==
    /\ called = "intersect" =>
          /\ Members(ret[1]) = Members(args[1]) \cap Members(args[2])
          /\ Canonical(ret[1])
          /\ ret[1] = ret[2]
    /\ called = "intersect_range" =>
          /\ Members(ret[1]) = (args[1][1]..args[1][2]) \cap Members(args[2])
          /\ Canonical(ret[1])
          /\ ret[1] = ret[2]

\* An intersection of two sets of several fragments each, one fragment of B
\* meeting two fragments of A, with at least two fragments in the result.
C17_Witness ==
    /\ called = "intersect"
    /\ Len(args[1]) >= 2 /\ Len(args[2]) >= 2
    /\ Len(ret[1]) >= 2
    /\ \E l \in 1..Len(args[2]) : \E k \in 1..Len(args[1]) - 1 :
          /\ Intersect(args[1][k], args[2][l]) # None
          /\ Intersect(args[1][k + 1], args[2][l]) # None

(***************************************************************************)
(* Specification SpecRangeOps: two ranges, empty ones included, are        *)
(* intersected and subtracted.                                             *)
(***************************************************************************)
OpRanges == {r \in (0..MaxRangeCoord) \X (-2..MaxRangeCoord) : r[2] >= r[1] - 2}

InitRangeOps ==
    /\ args \in OpRanges \X OpRanges
    /\ called = "none" /\ ret = <<>>
    /\ BuildIdle /\ CollectIdle /\ MapIdle /\ ZipIdle /\ BinIdle

\* a.intersect(&b) and a - &b
CallIntersectAndSub ==
    /\ called = "none"
    /\ called' = "intersect_and_sub"
    /\ ret' = <<Intersect(args[1], args[2]), RangeSub(args[1], args[2])>>
    /\ UNCHANGED args
    /\ UNCHANGED <<buildVars, collectVars, mapVars, zipVars, binVars>>

NextRangeOps == CallIntersectAndSub

SpecRangeOps == InitRangeOps /\ [][NextRangeOps]_vars

\* The members of an Option of a range
OptionMembers(o) == IF o = None THEN {} ELSE Unwrap(o)[1]..Unwrap(o)[2]

\* C16: for all ranges A and B, empty ones included, the members of A
\* intersected with B and of A - B together are the members of A and have
\* nothing in common; A - B is the part of A left of B followed by the part
\* of A right of B, each present only if non-empty, so at most two fragments.
C16_IntersectSubPartition ==
    called = "intersect_and_sub" =>
        LET A == args[1]
            B == args[2]
            inA == A[1]..A[2]
            left == {x \in inA : x < B[1]}
            right == {x \in inA : x > B[2]}
        IN  /\ OptionMembers(ret[1]) \cup Members(ret[2]) = inA
            /\ OptionMembers(ret[1]) \cap Members(ret[2]) = {}
            /\ Len(ret[2]) <= 2
            /\ ret[2] = IF IsEmpty(B) THEN Fragments(inA)
                        ELSE Fragments(left) \o Fragments(right)

\* B lies strictly inside A: the difference has a left and a right fragment.
C16_Witness ==
    /\ called = "intersect_and_sub"
    /\ ~IsEmpty(args[2])
    /\ args[1][1] < args[2][1] /\ args[2][2] < args[1][2]
    /\ Len(ret[2]) = 2
    /\ ret[1] = Some(args[2])

(***************************************************************************)
(* Specification SpecSlice: a canonical set is sliced by a range of        *)
(* positions.                                                              *)
(***************************************************************************)
Positions == 0..(MaxSetCoord + 2)

InitSlice ==
    /\ args \in CanonicalSets \X Positions \X Positions
    /\ called = "none" /\ ret = <<>>
    /\ BuildIdle /\ CollectIdle /\ MapIdle /\ ZipIdle /\ BinIdle

\* set.slice(i..j)
CallSetSlice ==
    /\ called = "none"
    /\ called' = "slice"
    /\ ret' = SetSlice(args[1], args[2], args[3])
    /\ UNCHANGED args
    /\ UNCHANGED <<buildVars, collectVars, mapVars, zipVars, binVars>>

NextSlice == CallSetSlice

SpecSlice == InitSlice /\ [][NextSlice]_vars

\* The position of x among the members of M in ascending order, from 0
Rank(M, x) == Cardinality({y \in M : y < x})

\* C18: S.slice(i..j) is the canonical set of the members of S at positions
\* i up to but not including min(j, n) of its ascending member sequence; it
\* is empty when i >= j or i >= n.
C18_SetSlice ==
    called = "slice" =>
        LET M == Members(args[1])
            i == args[2]
            j == args[3]
        IN  /\ ret = Fragments({x \in M : i <= Rank(M, x) /\ Rank(M, x) < j})
            /\ (i >= j \/ i >= Cardinality(M)) => ret = <<>>

\* A slice that starts inside one fragment and ends inside a later one, of a
\* set whose least member is not 0.
C18_Witness ==
    /\ called = "slice"
    /\ Len(args[1]) >= 2
    /\ args[1][1][1] > 0
    /\ args[2] > 0 /\ args[2] < Size(args[1][1])
    /\ Len(ret) = 2
    /\ ret[2][2] < args[1][2][2]

(***************************************************************************)
(* Specification SpecSearch: binary_search_with_cmp is called on indices   *)
(* [start, end) of a sequence that is ascending under cmp there.  The      *)
(* sequence is given by what cmp returns for each element and the target.  *)
(***************************************************************************)
Orderings == {"Less", "Equal", "Greater"}

OrdRank(o) == IF o = "Less" THEN 0 ELSE IF o = "Equal" THEN 1 ELSE 2

\* The searches: the comparisons are ascending within [start, end_exclusive)
Searches ==
    {a \in ListsUpTo(Orderings, MaxSearchLen) \X (0..MaxSearchLen) \X (0..MaxSearchLen) :
        /\ a[2] <= Len(a[1]) /\ a[3] <= Len(a[1])
        /\ \A m, n \in (a[2] + 1)..a[3] : m <= n => OrdRank(a[1][m]) <= OrdRank(a[1][n])}

InitSearch ==
    /\ args \in Searches
    /\ called = "none" /\ ret = <<>>
    /\ BuildIdle /\ CollectIdle /\ MapIdle /\ ZipIdle /\ BinIdle

\* self.binary_search_with_cmp(start, end, target, cmp)
CallBinarySearch ==
    /\ called = "none"
    /\ called' = "binary_search_with_cmp"
    /\ ret' = BinarySearchWithCmp(args[1], args[2], args[3])
    /\ UNCHANGED args
    /\ UNCHANGED <<buildVars, collectVars, mapVars, zipVars, binVars>>

NextSearch == CallBinarySearch

SpecSearch == InitSearch /\ [][NextSearch]_vars

\* C19: the search returns (it terminates with a Result); Ok(i) with i in
\* [start, end) and element i comparing Equal whenever some element of
\* [start, end) compares Equal; otherwise Err(Some(k)) with start <= k <= end,
\* every element of [start, k) comparing Less and every element of [k, end)
\* comparing Greater; and Err(None) exactly when start >= end.
C19_BinarySearch ==
    called = "binary_search_with_cmp" =>
        LET c == args[1]
            start == args[2]
            end == args[3]
            equals == {i \in start..(end - 1) : c[i + 1] = "Equal"}
        IN  /\ ret[1] \in {"Ok", "Err"}
            /\ equals # {} => ret[1] = "Ok" /\ ret[2] \in equals
            /\ ret[1] = "Ok" => ret[2] \in equals
            /\ (equals = {} /\ start < end) =>
                  /\ ret[1] = "Err" /\ IsSome(ret[2])
                  /\ start <= Unwrap(ret[2]) /\ Unwrap(ret[2]) <= end
                  /\ \A i \in start..(Unwrap(ret[2]) - 1) : c[i + 1] = "Less"
                  /\ \A i \in Unwrap(ret[2])..(end - 1) : c[i + 1] = "Greater"
            /\ (ret = Err(None)) <=> (start >= end)

\* A search of a part of the sequence, of at least three elements, that found
\* no Equal element and returned an insertion point strictly inside it.
C19_Witness ==
    /\ called = "binary_search_with_cmp"
    /\ args[2] > 0 /\ args[3] < Len(args[1])
    /\ args[3] - args[2] >= 3
    /\ ret[1] = "Err" /\ IsSome(ret[2])
    /\ args[2] < Unwrap(ret[2]) /\ Unwrap(ret[2]) < args[3]

(***************************************************************************)
(* Specification SpecContaining: get_partition_containing is called on a   *)
(* list of non-empty, pairwise disjoint ranges ascending by start, with a  *)
(* non-empty subinterval.                                                  *)
(***************************************************************************)
InitContaining ==
    /\ args \in Partitions \X PartRanges
    /\ called = "none" /\ ret = <<>>
    /\ BuildIdle /\ CollectIdle /\ MapIdle /\ ZipIdle /\ BinIdle

\* self.get_partition_containing(&subinterval)
CallGetPartitionContaining ==
    /\ called = "none"
    /\ called' = "get_partition_containing"
    /\ ret' = GetPartitionContaining(args[1], args[2])
    /\ UNCHANGED args
    /\ UNCHANGED <<buildVars, collectVars, mapVars, zipVars, binVars>>

NextContaining == CallGetPartitionContaining

SpecContaining == InitContaining /\ [][NextContaining]_vars

\* The indices of the partitions that hold every integer of s
Holding(P, s) ==
    {i \in 0..(Len(P) - 1) : \A x \in s[1]..s[2] : Contains(P[i + 1], x)}

\* C20: get_partition_containing(s) returns Some((i, P[i])) with s inside
\* P[i], i being the index of that partition in the list, if some partition
\* contains s, and None if no partition contains s.
C20_PartitionContaining ==
    called = "get_partition_containing" =>
        LET P == args[1]
            s == args[2]
        IN  IF Holding(P, s) # {}
            THEN /\ IsSome(ret)
                 /\ Unwrap(ret)[1] \in Holding(P, s)
                 /\ Unwrap(ret)[2] = P[Unwrap(ret)[1] + 1]
            ELSE ret = None

\* A subinterval of two or more integers was found in a partition that is
\* neither the first nor the last of at least three.
C20_Witness ==
    /\ called = "get_partition_containing"
    /\ Len(args[1]) >= 3
    /\ args[2][2] > args[2][1]
    /\ IsSome(ret)
    /\ Unwrap(ret)[1] > 0 /\ Unwrap(ret)[1] < Len(args[1]) - 1

(***************************************************************************)
(* Specification SpecRangePairs: two ranges, empty ones included, are      *)
(* coalesced, refined and tested for inclusion.                            *)
(***************************************************************************)
\* a.coalesce_with(&b) and b.coalesce_with(&a)
CallCoalesceWith ==
    /\ called = "none"
    /\ called' = "coalesce_with"
    /\ ret' = <<CoalesceWith(args[1], args[2]), CoalesceWith(args[2], args[1])>>
    /\ UNCHANGED args
    /\ UNCHANGED <<buildVars, collectVars, mapVars, zipVars, binVars>>

\* a.get_common_refinement(&b) and b.get_common_refinement(&a)
CallRangeRefinement ==
    /\ called = "none"
    /\ called' = "range_refinement"
    /\ ret' = <<RangeRefinement(args[1], args[2]), RangeRefinement(args[2], args[1])>>
    /\ UNCHANGED args
    /\ UNCHANGED <<buildVars, collectVars, mapVars, zipVars, binVars>>

\* a.is_subset_of(&b) and a.is_strict_subset_of(&b)
CallIsSubsetOf ==
    /\ called = "none"
    /\ called' = "is_subset_of"
    /\ ret' = <<RangeIsSubsetOf(args[1], args[2]), RangeIsStrictSubsetOf(args[1], args[2])>>
    /\ UNCHANGED args
    /\ UNCHANGED <<buildVars, collectVars, mapVars, zipVars, binVars>>

NextRangePairs == CallCoalesceWith \/ CallRangeRefinement \/ CallIsSubsetOf

SpecRangePairs == InitRangeOps /\ [][NextRangePairs]_vars

\* The two ranges intersect or are adjacent, as the bounds tell it
TouchByBounds(A, B) == A[2] + 1 >= B[1] /\ B[2] + 1 >= A[1]

\* C21 as stated, for all ranges: A.coalesce_with(B) returns a range if and
\* only if A.end + 1 >= B.start and B.end + 1 >= A.start, that range is
\* [min(A.start, B.start), max(A.end, B.end)], and the result is the same
\* for (B, A).
C21_CoalesceByBoundsForAll ==
    called = "coalesce_with" =>
        LET A == args[1]
            B == args[2]
        IN  /\ IsSome(ret[1]) <=> TouchByBounds(A, B)
            /\ IsSome(ret[1]) =>
                  Unwrap(ret[1]) = <<Min(A[1], B[1]), Max(A[2], B[2])>>
            /\ ret[1] = ret[2]

\* C21 (amended): for non-empty ranges A and B, A.coalesce_with(B) returns a
\* range if and only if A.end + 1 >= B.start and B.end + 1 >= A.start, and
\* that range is [min(A.start, B.start), max(A.end, B.end)]; when exactly
\* one of A and B is empty the other is returned, and nothing is returned when
\* both are empty; in every case the result is the same for (B, A).
C21_Coalesce ==
    called = "coalesce_with" =>
        LET A == args[1]
            B == args[2]
        IN  /\ (~IsEmpty(A) /\ ~IsEmpty(B)) =>
                  /\ IsSome(ret[1]) <=> TouchByBounds(A, B)
                  /\ IsSome(ret[1]) =>
                        Unwrap(ret[1]) = <<Min(A[1], B[1]), Max(A[2], B[2])>>
            /\ (IsEmpty(A) /\ ~IsEmpty(B)) => ret[1] = Some(B)
            /\ (~IsEmpty(A) /\ IsEmpty(B)) => ret[1] = Some(A)
            /\ (IsEmpty(A) /\ IsEmpty(B)) => ret[1] = None
            /\ ret[1] = ret[2]

\* Two non-empty ranges that are adjacent and share no integer were merged.
C21_Witness ==
    /\ called = "coalesce_with"
    /\ ~IsEmpty(args[1]) /\ ~IsEmpty(args[2])
    /\ args[1][2] + 1 = args[2][1]
    /\ ret[1] = Some(<<args[1][1], args[2][2]>>)

\* C22: for all ranges A and B the common refinement has at most 4 ranges,
\* all non-empty, ascending and pairwise disjoint; their union is the members
\* of A together with the members of B; the intersection of A and B is one
\* of them whenever A and B intersect; and the result is the same for (B, A).
C22_RangeRefinement ==
    called = "range_refinement" =>
        LET A == args[1]
            B == args[2]
            R == ret[1]
            common == (A[1]..A[2]) \cap (B[1]..B[2])
        IN  /\ Len(R) <= 4
            /\ \A n \in 1..Len(R) : ~IsEmpty(R[n])
            /\ \A n \in 1..Len(R) - 1 : R[n][2] < R[n + 1][1]
            /\ UNION {R[n][1]..R[n][2] : n \in 1..Len(R)} = (A[1]..A[2]) \cup (B[1]..B[2])
            /\ common # {} => \E n \in 1..Len(R) : R[n][1]..R[n][2] = common
            /\ ret[1] = ret[2]

\* Two ranges that do not meet were refined, the second argument lying
\* before the first with a gap between them.
C22_Witness ==
    /\ called = "range_refinement"
    /\ ~IsEmpty(args[1]) /\ ~IsEmpty(args[2])
    /\ args[2][2] + 1 < args[1][1]
    /\ ret[1] = <<args[2], args[1]>>

\* C23: for all ranges A and B, empty or not, A.is_subset_of(B) is true
\* exactly when every integer of A is an integer of B, and
\* A.is_strict_subset_of(B) is true exactly when A is such a subset, A and B
\* differ as (start, end) pairs, and B is non-empty.
C23_IsSubsetOf ==
    called = "is_subset_of" =>
        LET A == args[1]
            B == args[2]
            included == (A[1]..A[2]) \subseteq (B[1]..B[2])
        IN  /\ ret[1] = included
            /\ ret[2] = (included /\ A # B /\ B[1] <= B[2])

\* An empty range whose bounds lie outside a non-empty range was found to be
\* a subset, and a strict subset, of it.
C23_Witness ==
    /\ called = "is_subset_of"
    /\ IsEmpty(args[1]) /\ ~IsEmpty(args[2])
    /\ args[1][1] > args[2][2]
    /\ ret = <<TRUE, TRUE>>

\* C24: collect(x) preserves the canonical form: whenever the fragments are
\* non-empty, ascending and pairwise more than one apart before collect(x),
\* they are so after it, and the members are the former members plus x; on
\* the fast path as on the binary-search path, after any sequence of calls.
C24_CollectStep ==
    Canonical(intervals) =>
        /\ Canonical(intervals')
        /\ Members(intervals') = Members(intervals) \cup {Last(items')}

C24_CollectPreservesCanonical == [][C24_CollectStep]_vars

(***************************************************************************)
(* Specification SpecSetSubRange: a range, empty or not, is subtracted     *)
(* from a canonical set.                                                   *)
(***************************************************************************)
InitSetSubRange ==
    /\ args \in CanonicalSets \X SetOpRanges
    /\ called = "none" /\ ret = <<>>
    /\ BuildIdle /\ CollectIdle /\ MapIdle /\ ZipIdle /\ BinIdle

\* self - &rhs, rhs a ContiguousIntegerSet
CallSetSubRange ==
    /\ called = "none"
    /\ called' = "sub_range"
    /\ ret' = SetSubRange(args[1], args[2])
    /\ UNCHANGED args
    /\ UNCHANGED <<buildVars, collectVars, mapVars, zipVars, binVars>>

NextSetSubRange == CallSetSubRange

SpecSetSubRange == InitSetSubRange /\ [][NextSetSubRange]_vars

\* What the claim leaves of one fragment: the fragment itself when it shares
\* no integer with B, else the pieces of it outside B
Leftover(frag, B) ==
    IF (frag[1]..frag[2]) \cap (B[1]..B[2]) = {} THEN <<frag>>
    ELSE Fragments((frag[1]..frag[2]) \ (B[1]..B[2]))

\* The leftovers of the fragments of A, in place
RECURSIVE Leftovers(_, _)
Leftovers(A, B) ==
    IF A = <<>> THEN <<>> ELSE Leftover(Head(A), B) \o Leftovers(Tail(A), B)

\* C25: for a canonical set A and a range B, A - B keeps every fragment of A
\* that does not intersect B unchanged and in place and replaces each
\* fragment that intersects B by its 0 to 2 leftover pieces; the result is
\* canonical and its members are the members of A not in B; and it is A when
\* A or B is empty or B lies before the first or after the last fragment.
C25_SetSubRange ==
    called = "sub_range" =>
        LET A == args[1]
            B == args[2]
        IN  /\ ret = Leftovers(A, B)
            /\ \A k \in 1..Len(A) : Len(Leftover(A[k], B)) <= 2
            /\ Canonical(ret)
            /\ Members(ret) = Members(A) \ (B[1]..B[2])
            /\ (A = <<>> \/ IsEmpty(B) \/ B[2] < A[1][1] \/ B[1] > Last(A)[2]) => ret = A

\* B lies strictly inside the second of two fragments: the first is copied,
\* the second is replaced by two pieces.
C25_Witness ==
    /\ called = "sub_range"
    /\ Len(args[1]) = 2
    /\ args[1][2][1] < args[2][1] /\ args[2][1] <= args[2][2]
    /\ args[2][2] < args[1][2][2]
    /\ Len(ret) = 3 /\ ret[1] = args[1][1]

\* C26 as stated: after any sequence of aggregate calls on an initially empty
\* map no two stored keys are adjacent: for any two stored keys K1 before K2,
\* K1.end + 1 < K2.start.
C26_KeysNotAdjacent ==
    \A k1, k2 \in DOMAIN map : KeyLt(k1, k2) => k1[2] + 1 < k2[1]

\* C26 (amended): after any sequence of aggregate calls on an initially empty
\* map, for any two stored keys K1 before K2, K1.end + 1 <= K2.start: the
\* stored keys do not overlap, and they may be adjacent.
C26_KeysApart ==
    \A k1, k2 \in DOMAIN map : KeyLt(k1, k2) => k1[2] + 1 <= k2[1]

\* Two calls with overlapping ranges have left three keys, each adjacent to
\* the next, with three different values.
C26_Witness ==
    /\ ncalls = 2
    /\ \E k1, k2, k3 \in DOMAIN map :
          /\ k1[2] + 1 = k2[1] /\ k2[2] + 1 = k3[1]
          /\ map[k1] # map[k2] /\ map[k2] # map[k3] /\ map[k1] # map[k3]

(***************************************************************************)
(* Specification SpecZipFair: two or three sources that keep the contract  *)
(* have been zipped, and a caller iterates: while next() would return an   *)
(* item, it is eventually called.                                          *)
(***************************************************************************)
\* The state after common_refinement_zip and, for a third source,
\* common_refinement_flat_zip
ZippedAll(sources) ==
    /\ zsrc = sources
    /\ iters = [k \in 1..Len(sources) |-> Register(sources[k])[3]]
    /\ zintervals = [k \in 1..Len(sources) |-> Register(sources[k])[1]]
    /\ zvalues = [k \in 1..Len(sources) |-> Register(sources[k])[2]]
    /\ emitted = <<>> /\ started = FALSE /\ aborted = FALSE

InitZipFair ==
    /\ \/ \E self \in ContractSources(1), other \in ContractSources(2) :
             ZippedAll(<<self, other>>)
       \/ \E self \in ContractSources(1), other \in ContractSources(2),
              third \in ContractSources(3) : ZippedAll(<<self, other, third>>)
    /\ BuildIdle /\ CollectIdle /\ MapIdle /\ BinIdle /\ CallIdle

NextZipFair == ZipNextSome \/ ZipNextNone

SpecZipFair == InitZipFair /\ [][NextZipFair]_vars /\ WF_vars(ZipNextSome)

\* Every source has been pulled to its end and no current range is left
AllExhausted ==
    \A k \in 1..Len(zsrc) : zintervals[k] = None /\ iters[k] = <<>>

RECURSIVE SizeOfAll(_)
SizeOfAll(source) ==
    IF source = <<>> THEN 0 ELSE Size(Head(source)[1]) + SizeOfAll(Tail(source))

\* The integers the sources have yet to give: those of the current ranges
\* and of the ranges not pulled yet
RECURSIVE Remaining(_, _)
Remaining(ivs, its) ==
    IF ivs = <<>> THEN 0
    ELSE (IF IsSome(Head(ivs)) THEN Size(Unwrap(Head(ivs))) ELSE 0)
         + SizeOfAll(Head(its)) + Remaining(Tail(ivs), Tail(its))

\* Source k's current range was shrunk (same end, later start) or replaced
\* (by the next range of the source, or by nothing at its end)
ShrunkOrReplaced(k) ==
    /\ IsSome(zintervals[k])
    /\ \/ /\ IsSome(zintervals'[k]) /\ iters'[k] = iters[k]
          /\ Unwrap(zintervals'[k])[2] = Unwrap(zintervals[k])[2]
          /\ Unwrap(zintervals'[k])[1] > Unwrap(zintervals[k])[1]
       \/ /\ iters[k] # <<>> /\ iters'[k] = Tail(iters[k])
          /\ zintervals'[k] = Some(Head(iters[k])[1])
       \/ /\ iters[k] = <<>> /\ iters'[k] = <<>> /\ zintervals'[k] = None

\* A call of next(): it returns None when every source is exhausted, and
\* nothing changes; otherwise it returns an item, and at least one source's
\* current range is shrunk or replaced and fewer integers remain
C27_Step ==
    (started' /\ zsrc' = zsrc) =>
        IF AllExhausted
        THEN UNCHANGED <<emitted, zintervals, iters, zvalues>>
        ELSE /\ Len(emitted') = Len(emitted) + 1
             /\ \E k \in 1..Len(zsrc) : ShrunkOrReplaced(k)
             /\ Remaining(zintervals', iters') < Remaining(zintervals, iters)

\* C27: for finite sources that keep the contract the iteration terminates:
\* every next() that returns an item shrinks or replaces the current range of
\* at least one source, next() returns None exactly when every source is
\* exhausted, the exhausted zip stays exhausted, and the iteration reaches
\* the exhausted zip.
C27_ZipTerminates ==
    /\ [][C27_Step]_vars
    /\ [][(started /\ AllExhausted) => (started' /\ AllExhausted')]_vars
    /\ <>AllExhausted

\* Three non-empty sources, one of two ranges, were iterated to the end in
\* at least two items.
C27_Witness ==
    /\ started /\ AllExhausted
    /\ Len(zsrc) = 3
    /\ \A k \in 1..3 : zsrc[k] # <<>>
    /\ \E k \in 1..3 : Len(zsrc[k]) = 2
    /\ Len(emitted) >= MaxZipCoord + 1

(***************************************************************************)
(* Specification SpecRangeIter: to_iter() on a ContiguousIntegerSet, then  *)
(* next() until it returns None.  args is the set; ret is the iterator,    *)
(* <<current, the integers yielded so far>>.                               *)
(***************************************************************************)
IterCoords == (-MaxIterCoord)..MaxIterCoord

\* ContiguousIntegerSetIter::from: `current: E::zero()`
IterFrom(contiguous_integer_set) == 0

InitRangeIter ==
    /\ args \in IterCoords \X IterCoords
    /\ called = "none" /\ ret = <<>>
    /\ BuildIdle /\ CollectIdle /\ MapIdle /\ ZipIdle /\ BinIdle

\* set.to_iter()
ToIter ==
    /\ called = "none"
    /\ called' = "to_iter"
    /\ ret' = <<IterFrom(args), <<>>>>
    /\ UNCHANGED args
    /\ UNCHANGED <<buildVars, collectVars, mapVars, zipVars, binVars>>

\* next() returning Some(val)
IterNextSome ==
    /\ called = "to_iter"
    /\ ~(ret[1] > args[2])
    /\ ret' = <<ret[1] + 1, Append(ret[2], ret[1])>>
    /\ UNCHANGED <<args, called>>
    /\ UNCHANGED <<buildVars, collectVars, mapVars, zipVars, binVars>>

\* next() returning None
IterNextNone ==
    /\ called = "to_iter"
    /\ ret[1] > args[2]
    /\ called' = "exhausted"
    /\ UNCHANGED <<args, ret>>
    /\ UNCHANGED <<buildVars, collectVars, mapVars, zipVars, binVars>>

NextRangeIter == ToIter \/ IterNextSome \/ IterNextNone

SpecRangeIter == InitRangeIter /\ [][NextRangeIter]_vars

\* C28: the iterator to_iter() returns on [start, end] yields exactly start,
\* start + 1, ..., end in ascending order, each once, and nothing when the
\* set is empty, for every start.
C28_IterYieldsMembers ==
    called = "exhausted" =>
        ret[2] = [i \in 1..Size(args) |-> args[1] + i - 1]

(***************************************************************************)
(* Specification SpecSplit: an IntegerPartitionIter, <<partitions,         *)
(* current_cursor, end_exclusive>> in args, is advanced from both ends and *)
(* then split as a rayon Producer.  ret is <<index, left, right>>.         *)
(***************************************************************************)
\* IntegerPartitions::iter
PartitionIter(partitions) == <<partitions, 0, Len(partitions)>>

\* IntegerPartitionIter::clone_with_range: the assertion start <= end_exclusive
\* fails or the slice partitions[start..end_exclusive] is out of range
\* ("panicked"), or the clone is returned
CloneWithRange(self, start, end_exclusive) ==
    IF ~(start <= end_exclusive) THEN "panicked"
    ELSE IF end_exclusive > Len(self[1]) THEN "panicked"
    ELSE <<SubSeq(self[1], start + 1, end_exclusive), 0, end_exclusive - start>>

\* ExactSizeIterator::len
IterLen(self) == IF self[2] >= self[3] THEN 0 ELSE self[3] - self[2]

\* Producer::split_at
SplitAt(self, index) ==
    <<CloneWithRange(self, 0, index), CloneWithRange(self, index, IterLen(self))>>

\* The i-th partition of the collection: the single range [i, i]
PartitionsOf(n) == [i \in 1..n |-> <<New(i, i)>>]

InitSplit ==
    /\ \E n \in 0..MaxParts : args = PartitionIter(PartitionsOf(n))
    /\ called = "none" /\ ret = <<>>
    /\ BuildIdle /\ CollectIdle /\ MapIdle /\ ZipIdle /\ BinIdle

\* next() returning Some(partition)
PartNext ==
    /\ called = "none"
    /\ ~(args[2] >= args[3])
    /\ args' = <<args[1], args[2] + 1, args[3]>>
    /\ UNCHANGED <<called, ret>>
    /\ UNCHANGED <<buildVars, collectVars, mapVars, zipVars, binVars>>

\* next_back() returning Some(partition)
PartNextBack ==
    /\ called = "none"
    /\ ~(args[2] >= args[3])
    /\ args' = <<args[1], args[2], args[3] - 1>>
    /\ UNCHANGED <<called, ret>>
    /\ UNCHANGED <<buildVars, collectVars, mapVars, zipVars, binVars>>

\* split_at(index)
CallSplitAt ==
    /\ called = "none"
    /\ called' = "split_at"
    /\ \E index \in 0..MaxParts : ret' = <<index>> \o SplitAt(args, index)
    /\ UNCHANGED args
    /\ UNCHANGED <<buildVars, collectVars, mapVars, zipVars, binVars>>

NextSplit == PartNext \/ PartNextBack \/ CallSplitAt

SpecSplit == InitSplit /\ [][NextSplit]_vars

\* What next() yields, call after call, until it returns None
Yields(it) == SubSeq(it[1], it[2] + 1, it[3])

\* C29: for an iterator with k elements remaining after any sequence of
\* next() and next_back() calls and any index <= k, split_at(index) yields
\* two iterators whose outputs, concatenated, are the k remaining elements in
\* order, the first yielding index of them.
C29_SplitLosesNothing ==
    (called = "split_at" /\ ret[1] <= Len(Yields(args))) =>
        /\ ret[2] # "panicked" /\ ret[3] # "panicked"
        /\ Yields(ret[2]) \o Yields(ret[3]) = Yields(args)
        /\ Len(Yields(ret[2])) = ret[1]

(***************************************************************************)
(* Specification SpecRangeSlice: a single range, empty or not, is sliced   *)
(* by a range of positions.                                                *)
(***************************************************************************)
RangePositions == 0..(MaxRangeCoord + 2)

InitRangeSlice ==
    /\ args \in OpRanges \X RangePositions \X RangePositions
    /\ called = "none" /\ ret = <<>>
    /\ BuildIdle /\ CollectIdle /\ MapIdle /\ ZipIdle /\ BinIdle

\* range.slice(a..b)
CallRangeSlice ==
    /\ called = "none"
    /\ called' = "range_slice"
    /\ ret' = RangeSlice(args[1], args[2], args[3])
    /\ UNCHANGED args
    /\ UNCHANGED <<buildVars, collectVars, mapVars, zipVars, binVars>>

NextRangeSlice == CallRangeSlice

SpecRangeSlice == InitRangeSlice /\ [][NextRangeSlice]_vars

\* C30: for every range R with n members and every a, b, R.slice(a..b) is
\* None when a >= b or a >= n, and otherwise a non-empty range that is a
\* subset of R and holds exactly the a-th through (min(b, n) - 1)-th members
\* of R.
C30_RangeSliceStaysInside ==
    called = "range_slice" =>
        LET R == args[1]
            a == args[2]
            b == args[3]
            n == Size(R)
        IN  IF a >= b \/ a >= n THEN ret = None
            ELSE /\ IsSome(ret)
                 /\ ~IsEmpty(Unwrap(ret))
                 /\ (Unwrap(ret)[1]..Unwrap(ret)[2]) \subseteq (R[1]..R[2])
                 /\ Unwrap(ret) = New(R[1] + a, R[1] + Min(b, n) - 1)

====
